---- MODULE Spec2Model ----
(***************************************************************************)
(* A model of atomrss: the Atom parser (atomrss/atom.py), the RSS parser   *)
(* (atomrss/rss.py) and the unifying adapter with its dispatcher           *)
(* (atomrss/feed.py).  A parse is followed one call at a time over an      *)
(* element tree that is fixed when the parse starts.                       *)
(*                                                                         *)
(* Python values: None is the empty sequence and a present optional value  *)
(* v is the one-element sequence <<v>>.  A string built by str.format is   *)
(* the sequence of its pieces.  The result of a call is a record with the  *)
(* exception it raised (None when it returned), the value it returned and  *)
(* the events it logged, in order.                                         *)
(***************************************************************************)
EXTENDS Integers, Sequences, FiniteSets, TLC

\* ------------------------------------------------------------------ bounds
MaxEntries == 2
MaxItems == 2
MaxLinks == 2

\* ------------------------------------------------------- generic helpers
None == <<>>
Some(x) == <<x>>
Val(o) == o[1]

Ret(v, logs) == [exc |-> None, val |-> v, logs |-> logs]
Raise(e, logs) == [exc |-> Some(e), val |-> None, logs |-> logs]

\* Index of the first call of a sequence of calls that raised, 0 when none did.
FirstRaise(rs) ==
    IF \E i \in 1..Len(rs) : rs[i].exc # None
    THEN CHOOSE i \in 1..Len(rs) :
            /\ rs[i].exc # None
            /\ \A j \in 1..(i - 1) : rs[j].exc = None
    ELSE 0

RECURSIVE LogsUpTo(_, _)
\* The events of the first k calls, in call order.
LogsUpTo(rs, k) ==
    IF k = 0 THEN <<>> ELSE LogsUpTo(rs, k - 1) \o rs[k].logs

\* The calls run in order until one raises: the events logged so far.
RunLogs(rs) ==
    LogsUpTo(rs, IF FirstRaise(rs) = 0 THEN Len(rs) ELSE FirstRaise(rs))

RECURSIVE SelectVals(_)
\* filter(None, map(f, xs)) over calls that all returned.
SelectVals(rs) ==
    IF rs = <<>> THEN <<>>
    ELSE (IF Head(rs).val = None THEN <<>> ELSE <<Val(Head(rs).val)>>)
         \o SelectVals(Tail(rs))

\* ------------------------------------------------------------ exceptions
\* The direct base class of every exception class the parsers raise.
Base(cls) ==
    CASE cls = "atom.InvalidRoot" -> "atom.MissingElement"
      [] cls = "atom.MissingElement" -> "atom.AtomParserError"
      [] cls = "atom.InvalidDate" -> "atom.AtomParserError"
      [] cls = "atom.NotImplementedError" -> "atom.AtomParserError"
      [] cls = "atom.AtomParserError" -> "ParserError"
      [] cls = "rss.InvalidRoot" -> "rss.MissingElement"
      [] cls = "rss.MissingElement" -> "rss.RSSParserError"
      [] cls = "rss.MissingAttribute" -> "rss.RSSParserError"
      [] cls = "rss.VersionNotSupported" -> "rss.RSSParserError"
      [] cls = "rss.RSSParserError" -> "ParserError"
      [] cls = "ParserError" -> "AtomRSSError"
      [] cls = "feed.NotAFeed" -> "AtomRSSError"
      [] OTHER -> "Exception"

RECURSIVE IsSubclass(_, _)
IsSubclass(cls, of) ==
    IF cls = of THEN TRUE
    ELSE IF cls = "Exception" THEN FALSE
    ELSE IsSubclass(Base(cls), of)

\* except <of>: does the handler catch the exception e
Catches(of, e) == IsSubclass(e.cls, of)

\* ParserError.__init__: the message gets " (line: n)" when lineno is given.
ParserError(cls, message, lineno) ==
    [cls |-> cls,
     args0 |-> [msg |-> message, line |-> lineno],
     lineno |-> lineno]

\* InvalidDate.__init__ keeps the raw date as well.
InvalidDate(date, lineno) ==
    [cls |-> "atom.InvalidDate",
     args0 |-> [msg |-> <<date>>, line |-> lineno],
     lineno |-> lineno,
     date |-> date]

\* A builtin exception (TypeError, UnboundLocalError, AttributeError).
Builtin(cls, what) == [cls |-> cls, args0 |-> [msg |-> <<what>>, line |-> None]]

\* to_log_kwargs of the Atom exception classes.
ToLogKwargs(e) ==
    CASE e.cls = "atom.NotImplementedError" ->
            [event |-> "not-implemented-error", feature |-> e.args0,
             lineno |-> e.lineno]
      [] e.cls \in {"atom.MissingElement", "atom.InvalidRoot"} ->
            [event |-> "missing-element", element |-> e.args0,
             lineno |-> e.lineno]
      [] e.cls = "atom.InvalidDate" ->
            [event |-> "invalid-date", date |-> e.date, lineno |-> e.lineno]
      [] OTHER ->
            [event |-> e.args0, lineno |-> e.lineno]

\* kwargs['cause'] = kwargs['event']; kwargs['event'] = event
Recause(kwargs, event) ==
    [k \in DOMAIN kwargs \cup {"cause"} |->
        IF k = "cause" THEN kwargs.event
        ELSE IF k = "event" THEN event
        ELSE kwargs[k]]

\* logger.error(**kwargs) on a logger bound with the context ctx.
LogKw(ctx, kwargs) == kwargs @@ ctx

\* logger.error(*kwargs): the keys of the dict are passed positionally, the
\* first as the event and the rest as positional arguments.
LogPositional(ctx, keys) ==
    [event |-> Head(keys), positional_args |-> Tail(keys)] @@ ctx

\* The keys of a kwargs dict in insertion order.
KeysInOrder(e) ==
    CASE e.cls = "atom.NotImplementedError" -> <<"event", "feature", "lineno">>
      [] e.cls \in {"atom.MissingElement", "atom.InvalidRoot"} ->
            <<"event", "element", "lineno">>
      [] e.cls = "atom.InvalidDate" -> <<"event", "date", "lineno">>
      [] OTHER -> <<"event", "lineno">>

\* ------------------------------------------------------ strings and dates
ATOM_NAMESPACE == "http://www.w3.org/2005/atom"
XHTML_NAMESPACE == "http://www.w3.org/1999/xhtml"
AtomNamespaceAsPublished == "http://www.w3.org/2005/Atom"
AtomNamespaceUpperCase == "HTTP://WWW.W3.ORG/2005/ATOM"

\* str.lower on the namespace URIs of the model.
Lower(s) ==
    IF s \in {AtomNamespaceAsPublished, AtomNamespaceUpperCase}
    THEN ATOM_NAMESPACE
    ELSE s

\* html.unescape on the texts of the model.
HtmlUnescape(s) ==
    CASE s = "Less: &lt;em&gt; &amp;lt; &lt;/em&gt;" -> "Less: <em> &lt; </em>"
      [] s = "a &amp; b" -> "a & b"
      [] OTHER -> s

ValidDate == "2016-01-01T00:00:00"
GarbageDate == "garbage"

\* dateutil.parser.parse: a timestamp, ValueError, or TypeError on None.
DateutilParse(text) ==
    IF text = None THEN Raise(Builtin("TypeError", "dateutil"), <<>>)
    ELSE IF Val(text) = ValidDate THEN Ret(Some(1451606400), <<>>)
    ELSE Raise(Builtin("ValueError", "dateutil"), <<>>)

\* lxml.etree.QName(namespace, name) and the tag of an element.
QName(namespace, name) == [ns |-> namespace, local |-> name]

\* '<{}>'.format(element.tag)
FormatTag(tag) ==
    IF tag.ns = "" THEN <<"<", tag.local, ">">>
    ELSE <<"<", "{", tag.ns, "}", tag.local, ">">>

\* '<atom:{}>'.format(name.localname)
FormatAtom(localname) == <<"<atom:", localname, ">">>

\* ------------------------------------------------------------ Atom parser
\* The namespace loop of parse without its break: the last match is kept.
ResolveNamespace_LastDeclared(nsmap) ==
    IF \E i \in 1..Len(nsmap) : Lower(nsmap[i]) = ATOM_NAMESPACE
    THEN nsmap[CHOOSE i \in 1..Len(nsmap) :
                  /\ Lower(nsmap[i]) = ATOM_NAMESPACE
                  /\ \A j \in (i + 1)..Len(nsmap) :
                        Lower(nsmap[j]) # ATOM_NAMESPACE]
    ELSE ATOM_NAMESPACE

\* _Parser.parse: the namespace in the case used in the XML file.
ResolveNamespace(nsmap) ==
    IF \E i \in 1..Len(nsmap) : Lower(nsmap[i]) = ATOM_NAMESPACE
    THEN nsmap[CHOOSE i \in 1..Len(nsmap) :
                  /\ Lower(nsmap[i]) = ATOM_NAMESPACE
                  /\ \A j \in 1..(i - 1) : Lower(nsmap[j]) # ATOM_NAMESPACE]
    ELSE ATOM_NAMESPACE

\* _Parser._get_element_text
AtomGetElementText(tree, localname) ==
    IF tree[localname] = None
    THEN Raise(ParserError("atom.MissingElement", FormatAtom(localname),
                           tree.sourceline), <<>>)
    ELSE Ret(Val(tree[localname]).text, <<>>)

\* parse_text_construct taking an xhtml construct as plain text
ParseTextConstruct_XhtmlAsText(element) ==
    LET type == IF element.attrib.type = None THEN "text"
                ELSE Val(element.attrib.type)
    IN  IF type = "html"
        THEN IF element.text = None
             THEN Raise(Builtin("TypeError", "html.unescape"), <<>>)
             ELSE Ret([type |-> type,
                       value |-> Some(HtmlUnescape(Val(element.text)))], <<>>)
        ELSE Ret([type |-> type, value |-> element.text], <<>>)

\* _Parser.parse_text_construct
ParseTextConstruct(element) ==
    LET type == IF element.attrib.type = None THEN "text"
                ELSE Val(element.attrib.type)
    IN  IF type = "xhtml"
        THEN Raise(ParserError("atom.NotImplementedError",
                               <<"xhtml text construct">>,
                               element.sourceline), <<>>)
        ELSE IF type = "html"
        THEN IF element.text = None
             THEN Raise(Builtin("TypeError", "html.unescape"), <<>>)
             ELSE Ret([type |-> type,
                       value |-> Some(HtmlUnescape(Val(element.text)))], <<>>)
        ELSE Ret([type |-> type, value |-> element.text], <<>>)

\* _Parser.parse_id
ParseId(tree) == AtomGetElementText(tree, "id")

\* parse_title reporting a missing <title> under the name of <id>
ParseTitle_NamesId(tree) ==
    IF tree.title = None
    THEN Raise(ParserError("atom.MissingElement", FormatAtom("id"),
                           tree.sourceline), <<>>)
    ELSE ParseTextConstruct(Val(tree.title))

\* _Parser.parse_title
ParseTitle(tree) ==
    IF tree.title = None
    THEN Raise(ParserError("atom.MissingElement", FormatAtom("title"),
                           tree.sourceline), <<>>)
    ELSE ParseTextConstruct(Val(tree.title))

\* _Parser.parse_date_construct
ParseDateConstruct(element) ==
    LET r == DateutilParse(element.text)
    IN  IF r.exc # None /\ Val(r.exc).cls \in {"ValueError", "OverflowError"}
        THEN Raise(InvalidDate(Val(element.text), element.sourceline), <<>>)
        ELSE r

\* _Parser.parse_updated
ParseUpdated(tree) ==
    IF tree.updated = None
    THEN Raise(ParserError("atom.MissingElement", FormatAtom("updated"),
                           tree.sourceline), <<>>)
    ELSE LET element == Val(tree.updated)
             r == DateutilParse(element.text)
         IN  IF r.exc # None
                /\ Val(r.exc).cls \in {"ValueError", "OverflowError"}
             THEN Raise(InvalidDate(Val(element.text), element.sourceline),
                        <<>>)
             ELSE r

\* _Parser.parse_person_construct
ParsePersonConstruct(element) ==
    LET name == AtomGetElementText(element, "name")
        uri == AtomGetElementText(element, "uri")
        email == AtomGetElementText(element, "email")
    IN  IF name.exc # None THEN name
        ELSE Ret(Some([name |-> name.val,
                       uri |-> IF uri.exc # None THEN None ELSE uri.val,
                       email |-> IF email.exc # None THEN None
                                 ELSE email.val]), <<>>)

\* list(filter(None, map(f, elements))) where f may raise and log.
ParseEach(rs) ==
    IF FirstRaise(rs) # 0
    THEN Raise(Val(rs[FirstRaise(rs)].exc), RunLogs(rs))
    ELSE Ret(SelectVals(rs), RunLogs(rs))

\* _Parser.parse_authors
ParseAuthors(tree) ==
    ParseEach([i \in 1..Len(tree.author) |->
                  ParsePersonConstruct(tree.author[i])])

\* _Parser.parse_contributors
ParseContributors(tree) ==
    ParseEach([i \in 1..Len(tree.contributor) |->
                  ParsePersonConstruct(tree.contributor[i])])

\* _Parser.parse_published
ParsePublished(ctx, tree) ==
    IF tree.published = None THEN Ret(None, <<>>)
    ELSE LET r == ParseDateConstruct(Val(tree.published))
         IN  IF r.exc # None /\ Catches("atom.InvalidDate", Val(r.exc))
             THEN Ret(None,
                      <<LogKw(ctx, Recause(ToLogKwargs(Val(r.exc)),
                                           "invalid-published"))>>)
             ELSE r

\* _Parser.parse_summary
ParseSummary(ctx, tree) ==
    IF tree.summary = None THEN Ret(None, <<>>)
    ELSE LET r == ParseTextConstruct(Val(tree.summary))
         IN  IF r.exc # None
                /\ Catches("atom.NotImplementedError", Val(r.exc))
             THEN Ret(None, <<LogPositional(ctx, KeysInOrder(Val(r.exc)))>>)
             ELSE IF r.exc # None THEN r
             ELSE Ret(Some(r.val), <<>>)

\* parse_subtitle yielding an empty text construct for a missing <subtitle>
ParseSubtitle_EmptyWhenMissing(ctx, tree) ==
    IF tree.subtitle = None
    THEN Ret(Some([type |-> "text", value |-> None]), <<>>)
    ELSE LET r == ParseTextConstruct(Val(tree.subtitle))
         IN  IF r.exc # None THEN r ELSE Ret(Some(r.val), <<>>)

\* _Parser.parse_subtitle
ParseSubtitle(ctx, tree) ==
    IF tree.subtitle = None THEN Ret(None, <<>>)
    ELSE LET r == ParseTextConstruct(Val(tree.subtitle))
         IN  IF r.exc # None THEN r ELSE Ret(Some(r.val), <<>>)

\* parse_link with the relation of a link without rel defaulting to self
ParseLink_DefaultRelSelf(ctx, element) ==
    IF element.attrib.href = None
    THEN Ret(None, <<LogKw(ctx, [event |-> "invalid-link",
                                 cause |-> "missing-attribute",
                                 attribute |-> "href",
                                 lineno |-> element.sourceline])>>)
    ELSE Ret(Some([href |-> Val(element.attrib.href),
                   rel |-> IF element.attrib.rel = None THEN "self"
                           ELSE Val(element.attrib.rel),
                   type |-> element.attrib.type,
                   hreflang |-> element.attrib.hreflang,
                   title |-> element.attrib.title,
                   length |-> element.attrib.length]), <<>>)

\* _Parser.parse_link
ParseLink(ctx, element) ==
    IF element.attrib.href = None
    THEN Ret(None, <<LogKw(ctx, [event |-> "invalid-link",
                                 cause |-> "missing-attribute",
                                 attribute |-> "href",
                                 lineno |-> element.sourceline])>>)
    ELSE Ret(Some([href |-> Val(element.attrib.href),
                   rel |-> IF element.attrib.rel = None THEN "alternate"
                           ELSE Val(element.attrib.rel),
                   type |-> element.attrib.type,
                   hreflang |-> element.attrib.hreflang,
                   title |-> element.attrib.title,
                   length |-> element.attrib.length]), <<>>)

\* _Parser.parse_links
ParseLinks(ctx, tree) ==
    ParseEach([i \in 1..Len(tree.link) |-> ParseLink(ctx, tree.link[i])])

\* _Parser.parse_content
ParseContent(ctx, tree) ==
    IF tree.content = None THEN Ret(None, <<>>)
    ELSE LET element == Val(tree.content)
             src == element.attrib.src
             type == IF element.attrib.type = None THEN "text"
                     ELSE Val(element.attrib.type)
             r == ParseTextConstruct(element)
         IN  IF type \in {"text", "html", "xhtml"}
             THEN IF r.exc # None
                     /\ Catches("atom.AtomParserError", Val(r.exc))
                  THEN Ret(None,
                           <<LogPositional(ctx, KeysInOrder(Val(r.exc)))>>)
                  ELSE IF r.exc # None THEN r
                  ELSE Ret(Some([type |-> type, src |-> src,
                                 value |-> r.val.value]), <<>>)
             ELSE \* value was never assigned
                  Raise(Builtin("UnboundLocalError", "value"), <<>>)

\* The mandatory fields parsed in the order updated, id, title.
ParseRequired_UpdatedFirst(tree) ==
    LET rs == <<ParseUpdated(tree), ParseId(tree), ParseTitle(tree)>>
    IN  IF FirstRaise(rs) # 0
        THEN Raise(Val(rs[FirstRaise(rs)].exc), <<>>)
        ELSE Ret([id |-> rs[2].val, title |-> rs[3].val,
                  updated |-> Val(rs[1].val)], <<>>)

\* The mandatory fields of a feed or an entry: id, title, updated in order.
ParseRequired(tree) ==
    LET rs == <<ParseId(tree), ParseTitle(tree), ParseUpdated(tree)>>
    IN  IF FirstRaise(rs) # 0
        THEN Raise(Val(rs[FirstRaise(rs)].exc), <<>>)
        ELSE Ret([id |-> rs[1].val, title |-> rs[2].val,
                  updated |-> Val(rs[3].val)], <<>>)

\* _Parser.parse_entry
ParseEntry(ctx, element) ==
    LET req == ParseRequired(element)
        rs == <<ParseAuthors(element), ParseContributors(element),
                ParsePublished(ctx, element), ParseSummary(ctx, element),
                ParseLinks(ctx, element), ParseContent(ctx, element)>>
    IN  IF req.exc # None /\ Catches("atom.AtomParserError", Val(req.exc))
        THEN Ret(None,
                 <<LogKw(ctx, Recause(ToLogKwargs(Val(req.exc)),
                                      "invalid-entry"))>>)
        ELSE IF req.exc # None THEN req
        ELSE IF FirstRaise(rs) # 0
        THEN Raise(Val(rs[FirstRaise(rs)].exc), RunLogs(rs))
        ELSE Ret(Some([id |-> req.val.id,
                       title |-> req.val.title,
                       updated |-> req.val.updated,
                       authors |-> rs[1].val,
                       contributors |-> rs[2].val,
                       published |-> rs[3].val,
                       summary |-> rs[4].val,
                       links |-> rs[5].val,
                       content |-> rs[6].val]), RunLogs(rs))

\* The keyword arguments of Feed(...) in parse_feed, evaluated in order.
ParseFeedOptional(ctx, element) ==
    LET rs == <<ParseAuthors(element), ParseContributors(element),
                ParseSubtitle(ctx, element), ParseLinks(ctx, element)>>
    IN  IF FirstRaise(rs) # 0
        THEN Raise(Val(rs[FirstRaise(rs)].exc), RunLogs(rs))
        ELSE Ret([authors |-> rs[1].val, contributors |-> rs[2].val,
                  subtitle |-> rs[3].val, links |-> rs[4].val], RunLogs(rs))

\* ------------------------------------------------------------- RSS parser
\* SUPPORTED_VERSIONS accepting RSS 1.0 as well
SUPPORTED_VERSIONS_WithOneZero == {"2.0", "0.92", "0.91", "1.0"}

SUPPORTED_VERSIONS == {"2.0", "0.92", "0.91"}

\* int(raw_length) on the attribute values of the model.
IntParse(s) ==
    CASE s = "0" -> Ret(0, <<>>)
      [] s = "1024" -> Ret(1024, <<>>)
      [] s = "-1" -> Ret(0 - 1, <<>>)
      [] OTHER -> Raise(Builtin("ValueError", "int"), <<>>)

\* email.utils.parseaddr on the author texts of the model.
ParseAddr(s) ==
    CASE s = "Jane Doe <jane@example.com>" ->
            [name |-> "Jane Doe", email |-> "jane@example.com"]
      [] s = "jane@example.com" -> [name |-> "", email |-> "jane@example.com"]
      [] OTHER -> [name |-> "", email |-> ""]

\* _get_element_text answering None for a missing element
RssGetElementText_DefaultNone(tree, name) ==
    IF tree[name] = None THEN Ret(None, <<>>)
    ELSE Ret(Val(tree[name]).text, <<>>)

\* _Parser._get_element_text without a default
RssGetElementText(tree, name) ==
    IF tree[name] = None
    THEN Raise(ParserError("rss.MissingElement", <<"<", name, ">">>, None),
               <<>>)
    ELSE Ret(Val(tree[name]).text, <<>>)

\* _Parser._get_element_text with default=None
RssGetElementTextOrNone(tree, name) ==
    IF tree[name] = None THEN None ELSE Val(tree[name]).text

\* parse_rss looking at the version attribute before the root tag
ParseRssHead_VersionFirst(root) ==
    IF root.attrib.version = None
    THEN Raise(ParserError("rss.MissingAttribute",
                           <<"<rss> is missing a version attribute">>,
                           root.sourceline), <<>>)
    ELSE IF Val(root.attrib.version) \notin SUPPORTED_VERSIONS
    THEN Raise(ParserError("rss.VersionNotSupported",
                           <<Val(root.attrib.version)>>, None), <<>>)
    ELSE IF root.tag # QName("", "rss")
    THEN Raise(ParserError("rss.InvalidRoot", FormatTag(root.tag),
                           root.sourceline), <<>>)
    ELSE Ret(Val(root.attrib.version), <<>>)

\* _Parser.parse_rss up to the call of parse_channel: the accepted version.
ParseRssHead(root) ==
    IF root.tag # QName("", "rss")
    THEN Raise(ParserError("rss.InvalidRoot", FormatTag(root.tag),
                           root.sourceline), <<>>)
    ELSE IF root.attrib.version # None
    THEN IF Val(root.attrib.version) \notin SUPPORTED_VERSIONS
         THEN Raise(ParserError("rss.VersionNotSupported",
                                <<Val(root.attrib.version)>>, None), <<>>)
         ELSE Ret(Val(root.attrib.version), <<>>)
    ELSE Raise(ParserError("rss.MissingAttribute",
                           <<"<rss> is missing a version attribute">>,
                           root.sourceline), <<>>)

\* _Parser.parse_channel up to the items: the mandatory fields in order.
ParseChannelRequired(root) ==
    IF root.channel = None
    THEN Raise(ParserError("rss.MissingElement", <<"<channel>">>,
                           root.sourceline), <<>>)
    ELSE LET element == Val(root.channel)
             rs == <<RssGetElementText(element, "title"),
                     RssGetElementText(element, "link"),
                     RssGetElementText(element, "description")>>
         IN  IF FirstRaise(rs) # 0
             THEN Raise(Val(rs[FirstRaise(rs)].exc), <<>>)
             ELSE Ret([title |-> rs[1].val, link |-> rs[2].val,
                       description |-> rs[3].val], <<>>)

\* _Parser.parse_channel_last_build_date
ParseChannelLastBuildDate(ctx, tree) ==
    IF tree.lastBuildDate = None THEN Ret(None, <<>>)
    ELSE LET element == Val(tree.lastBuildDate)
             r == DateutilParse(element.text)
         IN  IF r.exc # None
                /\ Val(r.exc).cls \in {"ValueError", "OverflowError"}
             THEN Ret(None,
                      <<LogKw(ctx, [event |-> "invalid-last-build-date",
                                    date |-> Val(element.text),
                                    lineno |-> element.sourceline])>>)
             ELSE r

\* _Parser.parse_item_author
ParseItemAuthor(item) ==
    LET email_address == RssGetElementTextOrNone(item, "author")
    IN  IF email_address = None THEN Ret(None, <<>>)
        ELSE Ret(Some(ParseAddr(Val(email_address))), <<>>)

\* _Parser.parse_item_pub_date
ParseItemPubDate(ctx, item) ==
    IF item.pubDate = None THEN Ret(None, <<>>)
    ELSE LET pub_date == Val(item.pubDate)
             r == DateutilParse(pub_date.text)
         IN  IF r.exc # None
                /\ Val(r.exc).cls \in {"ValueError", "OverflowError"}
             THEN Ret(None,
                      <<LogKw(ctx, [event |-> "invalid-pub-date",
                                    date |-> Val(pub_date.text),
                                    lineno |-> pub_date.sourceline])>>)
             ELSE r

\* The first of url, length, type that the enclosure lacks, None when complete.
MissingEnclosureAttribute(attrib) ==
    IF attrib.url = None THEN Some("url")
    ELSE IF attrib.length = None THEN Some("length")
    ELSE IF attrib.type = None THEN Some("type")
    ELSE None

\* parse_item_enclosure without the test for a negative length
ParseItemEnclosure_AcceptsNegative(ctx, item) ==
    IF item.enclosure = None THEN Ret(None, <<>>)
    ELSE LET element == Val(item.enclosure)
             missing == MissingEnclosureAttribute(element.attrib)
             raw_length == Val(element.attrib.length)
             length == IntParse(raw_length)
         IN  IF missing # None
             THEN Ret(None,
                      <<LogKw(ctx, [event |-> "invalid-enclosure",
                                    cause |-> "missing-attribute",
                                    attribute |-> Val(missing),
                                    lineno |-> element.sourceline])>>)
             ELSE IF length.exc # None
             THEN Ret(None,
                      <<LogKw(ctx, [event |-> "invalid-enclosure",
                                    cause |-> "invalid-length",
                                    length |-> raw_length,
                                    lineno |-> element.sourceline])>>)
             ELSE Ret(Some([url |-> Val(element.attrib.url),
                            length |-> length.val,
                            type |-> Val(element.attrib.type)]), <<>>)

\* _Parser.parse_item_enclosure
ParseItemEnclosure(ctx, item) ==
    IF item.enclosure = None THEN Ret(None, <<>>)
    ELSE LET element == Val(item.enclosure)
             missing == MissingEnclosureAttribute(element.attrib)
             raw_length == Val(element.attrib.length)
             length == IntParse(raw_length)
         IN  IF missing # None
             THEN Ret(None,
                      <<LogKw(ctx, [event |-> "invalid-enclosure",
                                    cause |-> "missing-attribute",
                                    attribute |-> Val(missing),
                                    lineno |-> element.sourceline])>>)
             ELSE IF length.exc # None \/ length.val < 0
             THEN Ret(None,
                      <<LogKw(ctx, [event |-> "invalid-enclosure",
                                    cause |-> "invalid-length",
                                    length |-> raw_length,
                                    lineno |-> element.sourceline])>>)
             ELSE Ret(Some([url |-> Val(element.attrib.url),
                            length |-> length.val,
                            type |-> Val(element.attrib.type)]), <<>>)

\* parse_item dropping an item that lacks either of title and description
ParseItem_NeedsBoth(ctx, element) ==
    LET title == RssGetElementTextOrNone(element, "title")
        link == RssGetElementTextOrNone(element, "link")
        raw == RssGetElementTextOrNone(element, "description")
        description == IF raw # None THEN Some(HtmlUnescape(Val(raw)))
                       ELSE None
        rs == <<ParseItemAuthor(element), ParseItemPubDate(ctx, element),
                ParseItemEnclosure(ctx, element)>>
    IN  IF title = None \/ description = None
        THEN Ret(None,
                 <<LogKw(ctx, [event |-> "invalid-item",
                               cause |-> "missing-element",
                               element |-> [msg |->
                                              <<"<title> or <description>">>,
                                            line |-> None],
                               lineno |-> element.sourceline])>>)
        ELSE IF FirstRaise(rs) # 0
        THEN Raise(Val(rs[FirstRaise(rs)].exc), RunLogs(rs))
        ELSE Ret(Some([title |-> title, link |-> link,
                       description |-> description,
                       author |-> rs[1].val,
                       pub_date |-> rs[2].val,
                       enclosure |-> rs[3].val]), RunLogs(rs))

\* _Parser.parse_item
ParseItem(ctx, element) ==
    LET title == RssGetElementTextOrNone(element, "title")
        link == RssGetElementTextOrNone(element, "link")
        raw == RssGetElementTextOrNone(element, "description")
        description == IF raw # None THEN Some(HtmlUnescape(Val(raw)))
                       ELSE None
        rs == <<ParseItemAuthor(element), ParseItemPubDate(ctx, element),
                ParseItemEnclosure(ctx, element)>>
    IN  IF title = None /\ description = None
        THEN Ret(None,
                 <<LogKw(ctx, [event |-> "invalid-item",
                               cause |-> "missing-element",
                               element |-> [msg |->
                                              <<"<title> or <description>">>,
                                            line |-> None],
                               lineno |-> element.sourceline])>>)
        ELSE IF FirstRaise(rs) # 0
        THEN Raise(Val(rs[FirstRaise(rs)].exc), RunLogs(rs))
        ELSE Ret(Some([title |-> title, link |-> link,
                       description |-> description,
                       author |-> rs[1].val,
                       pub_date |-> rs[2].val,
                       enclosure |-> rs[3].val]), RunLogs(rs))

\* -------------------------------------------------------- unifying adapter
\* _get_alternate_link without the preference for a link without hreflang
GetAlternateLink_FirstCandidate(links) ==
    LET alternates == SelectSeq(links,
                          LAMBDA link : /\ link.rel = "alternate"
                                        /\ link.type = Some("text/html"))
    IN  IF alternates # <<>> THEN Some(alternates[1]) ELSE None

\* feed._get_alternate_link
GetAlternateLink(links) ==
    LET alternates == SelectSeq(links,
                          LAMBDA link : /\ link.rel = "alternate"
                                        /\ link.type = Some("text/html"))
    IN  IF alternates # <<>>
        THEN IF \E i \in 1..Len(alternates) : alternates[i].hreflang = None
             THEN Some(alternates[CHOOSE i \in 1..Len(alternates) :
                          /\ alternates[i].hreflang = None
                          /\ \A j \in 1..(i - 1) :
                                alternates[j].hreflang # None])
             ELSE Some(alternates[1])
        ELSE None

\* feed.Link(...) with the defaults of its constructor
UnifiedLink(href, rel, type, hreflang, title, length) ==
    [href |-> href, rel |-> rel, type |-> type, hreflang |-> hreflang,
     title |-> title, length |-> length]

\* AtomFeed.links and AtomEntry.links
AtomLinks(obj) ==
    [i \in 1..Len(obj.links) |->
        UnifiedLink(obj.links[i].href, obj.links[i].rel, obj.links[i].type,
                    obj.links[i].hreflang, obj.links[i].title,
                    obj.links[i].length)]

\* AtomFeed.title and AtomEntry.title
AtomTitle(obj) == [format |-> obj.title.type, value |-> obj.title.value]

\* AtomFeed.entries
AtomFeedEntries(feed) ==
    Ret([i \in 1..Len(feed.entries) |->
            [cls |-> "AtomEntry", entry |-> feed.entries[i]]], <<>>)

\* RSSFeed.title
RSSFeedTitle(feed) == [format |-> "text", value |-> feed.channel.title]

\* RSSFeed.links
RSSFeedLinks(feed) ==
    <<UnifiedLink(feed.channel.link, "alternate", Some("text/html"),
                  None, None, None)>>

\* RSSFeed.entries: the attribute entries of the wrapped RSS object
RSSFeedEntries(feed) ==
    IF "entries" \in DOMAIN feed
    THEN Ret([i \in 1..Len(feed.entries) |->
                 [cls |-> "RSSEntry", item |-> feed.entries[i]]], <<>>)
    ELSE Raise(Builtin("AttributeError", "entries"), <<>>)

\* AtomEntry.content looking at the summary before the content
AtomEntryContent_SummaryFirst(entry) ==
    IF entry.summary # None
    THEN Some([format |-> Val(entry.summary).type,
               value |-> Val(entry.summary).value,
               source |-> None])
    ELSE IF entry.content # None
    THEN Some([format |-> Val(entry.content).type,
               source |-> Val(entry.content).src,
               value |-> Val(entry.content).value])
    ELSE None

\* AtomEntry.content
AtomEntryContent(entry) ==
    IF entry.content # None
    THEN Some([format |-> Val(entry.content).type,
               source |-> Val(entry.content).src,
               value |-> Val(entry.content).value])
    ELSE IF entry.summary # None
    THEN Some([format |-> Val(entry.summary).type,
               value |-> Val(entry.summary).value,
               source |-> None])
    ELSE None

\* RSSEntry.links with the enclosure ahead of the item's link
RSSEntryLinks_EnclosureFirst(item) ==
    (IF item.enclosure # None
     THEN <<UnifiedLink(Val(item.enclosure).url, "enclosure",
                        Some(Val(item.enclosure).type), None, None,
                        Some(Val(item.enclosure).length))>>
     ELSE <<>>)
    \o (IF item.link # None
        THEN <<UnifiedLink(Val(item.link), "alternate", Some("text/html"),
                           None, None, None)>>
        ELSE <<>>)

\* RSSEntry.links
RSSEntryLinks(item) ==
    (IF item.link # None
     THEN <<UnifiedLink(Val(item.link), "alternate", Some("text/html"),
                        None, None, None)>>
     ELSE <<>>)
    \o (IF item.enclosure # None
        THEN <<UnifiedLink(Val(item.enclosure).url, "enclosure",
                           Some(Val(item.enclosure).type), None, None,
                           Some(Val(item.enclosure).length))>>
        ELSE <<>>)

\* RSSEntry.content giving None for an item without description
RSSEntryContent_NoneWithoutDescription(item) ==
    IF item.description = None THEN None
    ELSE Some([format |-> "html", value |-> item.description,
               source |-> None])

\* RSSEntry.content
RSSEntryContent(item) ==
    Some([format |-> "html", value |-> item.description, source |-> None])

\* Feed.links of either wrapper
FeedLinks(wrapper) ==
    IF wrapper.cls = "AtomFeed" THEN AtomLinks(wrapper.feed)
    ELSE RSSFeedLinks(wrapper.feed)

\* Feed.title of either wrapper
FeedTitle(wrapper) ==
    IF wrapper.cls = "AtomFeed" THEN AtomTitle(wrapper.feed)
    ELSE RSSFeedTitle(wrapper.feed)

\* Feed.entries of either wrapper
FeedEntries(wrapper) ==
    IF wrapper.cls = "AtomFeed" THEN AtomFeedEntries(wrapper.feed)
    ELSE RSSFeedEntries(wrapper.feed)

\* Feed.website and Entry.website
Website(links) == GetAlternateLink(links)

\* NotAFeed(tree.docinfo.URL or tree)
NotAFeed(t) ==
    [cls |-> "feed.NotAFeed",
     args0 |-> [msg |-> IF t.url = None \/ t.url = Some("")
                        THEN <<"<ElementTree>">> ELSE <<Val(t.url)>>,
                line |-> None],
     source |-> IF t.url = None \/ t.url = Some("") THEN Some(t) ELSE None]

\* --------------------------------------------------------- element trees
\* An element with text content and the attributes type and src.
TextEl(type, src, text) ==
    [sourceline |-> None, attrib |-> [type |-> type, src |-> src],
     text |-> text]

Plain(text) == TextEl(None, None, Some(text))

NamedPerson ==
    [sourceline |-> None, name |-> Some(Plain("Ann")),
     uri |-> Some(Plain("http://ann.example")), email |-> None]

OtherPerson ==
    [sourceline |-> None, name |-> Some(Plain("Bob")), uri |-> None,
     email |-> Some(Plain("bob@example.com"))]

\* An <author> or <contributor> without <name>.
UnnamedPerson ==
    [sourceline |-> None, name |-> None, uri |-> None,
     email |-> Some(Plain("nobody@example.com"))]

LinkEl(href, rel, type, hreflang) ==
    [sourceline |-> None,
     attrib |-> [href |-> href, rel |-> rel, type |-> type,
                 hreflang |-> hreflang, title |-> None, length |-> None]]

\* A <link> that carries every attribute parse_link reads.
FullLink ==
    [sourceline |-> None,
     attrib |-> [href |-> Some("http://a.example/a.mp3"),
                 rel |-> Some("enclosure"), type |-> Some("audio/mpeg"),
                 hreflang |-> Some("en"), title |-> Some("Episode"),
                 length |-> Some("1024")]]

\* The <link> elements of the model: alternate text/html links with and
\* without hreflang, links of another rel or type, and a link without href.
LinkEls ==
    { LinkEl(href, rel, Some("text/html"), hreflang) :
        href \in {Some("http://a.example"), Some("http://b.example")},
        rel \in {None, Some("alternate")},
        hreflang \in {None, Some("de-DE")} }
    \cup { LinkEl(Some("http://a.example/feed"), Some("self"),
                  Some("text/html"), None),
           LinkEl(Some("http://a.example/pdf"), None, None, None),
           LinkEl(Some("http://a.example/atom"), Some("alternate"),
                  Some("application/atom+xml"), None),
           LinkEl(None, None, Some("text/html"), None),
           FullLink }

GoodLink == LinkEl(Some("http://a.example"), None, Some("text/html"), None)
HreflessLink == LinkEl(None, None, Some("text/html"), None)

RECURSIVE SeqsUpTo(_, _)
\* The sequences over S of length at most n.
SeqsUpTo(S, n) ==
    IF n = 0 THEN {<<>>}
    ELSE LET shorter == SeqsUpTo(S, n - 1)
         IN  shorter \cup { Append(q, x) : q \in shorter, x \in S }

\* The mandatory children of a feed or entry, with the defects of the model.
RequiredVariants ==
    { [id |-> id, title |-> title, updated |-> updated] :
        id \in {None, Some(Plain("urn:uuid:1"))},
        title \in {Some(Plain("Title"))},
        updated \in {Some(Plain(ValidDate)), Some(Plain(GarbageDate))} }
    \cup
    { [id |-> Some(Plain("urn:uuid:1")), title |-> title,
       updated |-> Some(Plain(ValidDate))] :
        title \in {None,
                   Some(TextEl(Some("xhtml"), None, None)),
                   Some(TextEl(Some("html"), None,
                               Some("Less: &lt;em&gt; &amp;lt; &lt;/em&gt;")))} }
    \cup
    { [id |-> Some(Plain("urn:uuid:1")), title |-> Some(Plain("Title")),
       updated |-> updated] :
        updated \in {None, Some(TextEl(None, None, None))} }
    \cup
    { [id |-> Some(Plain("urn:uuid:1")),
       title |-> Some(TextEl(Some("html"), None, None)),
       updated |-> Some(Plain(ValidDate))] }
    \cup
    \* several defects at once
    { [id |-> None, title |-> None, updated |-> Some(Plain(ValidDate))],
      [id |-> Some(Plain("urn:uuid:1")), title |-> None,
       updated |-> Some(Plain(GarbageDate))],
      [id |-> Some(Plain("urn:uuid:1")),
       title |-> Some(TextEl(Some("xhtml"), None, None)), updated |-> None],
      [id |-> None, title |-> Some(Plain("Title")),
       updated |-> Some(TextEl(None, None, None))] }

ValidRequired ==
    [id |-> Some(Plain("urn:uuid:1")), title |-> Some(Plain("Title")),
     updated |-> Some(Plain(ValidDate))]

\* The optional children of an entry.
NoEntryOptional ==
    [author |-> <<>>, contributor |-> <<>>, published |-> None,
     summary |-> None, link |-> <<>>, content |-> None]

EntryOptionalVariants ==
    { NoEntryOptional,
      [NoEntryOptional EXCEPT !.author = <<NamedPerson, UnnamedPerson>>],
      [NoEntryOptional EXCEPT !.author = <<NamedPerson>>,
                              !.contributor = <<UnnamedPerson, OtherPerson>>],
      [NoEntryOptional EXCEPT
          !.published = Some(Plain(GarbageDate)),
          !.summary = Some(TextEl(Some("xhtml"), None, None)),
          !.link = <<HreflessLink, GoodLink>>,
          !.content = Some(TextEl(Some("xhtml"), None, None))],
      [NoEntryOptional EXCEPT
          !.content = Some(TextEl(Some("application/pdf"),
                                  Some("http://a.example/doc.pdf"), None))],
      [NoEntryOptional EXCEPT
          !.author = <<NamedPerson, OtherPerson>>,
          !.contributor = <<OtherPerson>>,
          !.published = Some(Plain(ValidDate)),
          !.summary = Some(Plain("Summary")),
          !.link = <<GoodLink>>,
          !.content = Some(TextEl(Some("html"), None, Some("a &amp; b")))],
      [NoEntryOptional EXCEPT
          !.summary = Some(TextEl(Some("html"), None, Some("a &amp; b")))],
      [NoEntryOptional EXCEPT
          !.summary = Some(TextEl(Some("xhtml"), None, None)),
          !.content = Some(TextEl(None, Some("http://a.example/doc.txt"),
                                  Some("Body")))],
      [NoEntryOptional EXCEPT !.published = Some(TextEl(None, None, None))] }

\* The <entry> elements of the model.
EntryEls ==
    { [sourceline |-> None] @@ req @@ opt :
        req \in RequiredVariants, opt \in EntryOptionalVariants }

\* The <entry> elements that stand next to others in a feed: valid ones
\* without and with optional children, and ones without <id> or with an
\* unparseable <updated>, each over some of the optional children.
SiblingEntryEls ==
    { e \in EntryEls :
        /\ e.title = Some(Plain("Title"))
        /\ e.updated \in {Some(Plain(ValidDate)), Some(Plain(GarbageDate))}
        /\ e.id = None => e.updated = Some(Plain(ValidDate))
        /\ e.contributor \in {<<>>, <<OtherPerson>>}
        /\ e.updated = Some(Plain(GarbageDate)) => e.author # <<>>
        /\ e.id = None => e.published = Some(Plain(GarbageDate))
        /\ e.published # Some(TextEl(None, None, None))
        /\ e.content # None => Val(e.content).attrib.src = None }

ValidEntry == [sourceline |-> None] @@ ValidRequired @@ NoEntryOptional

\* The optional children of the <feed> root.
NoFeedOptional ==
    [author |-> <<>>, contributor |-> <<>>, subtitle |-> None, link |-> <<>>]

FeedOptionalVariants ==
    { NoFeedOptional,
      [NoFeedOptional EXCEPT !.author = <<NamedPerson, UnnamedPerson>>],
      [NoFeedOptional EXCEPT !.author = <<NamedPerson>>,
                             !.contributor = <<UnnamedPerson, OtherPerson>>],
      [NoFeedOptional EXCEPT
          !.subtitle = Some(TextEl(Some("xhtml"), None, None)),
          !.link = <<HreflessLink, GoodLink>>],
      [NoFeedOptional EXCEPT !.link = <<HreflessLink, GoodLink>>],
      [NoFeedOptional EXCEPT
          !.author = <<NamedPerson, OtherPerson>>,
          !.contributor = <<OtherPerson>>,
          !.subtitle = Some(TextEl(Some("html"), None, Some("a &amp; b"))),
          !.link = <<GoodLink>>] }

\* --- RSS elements
EnclosureEl(url, length, type) ==
    [sourceline |-> None,
     attrib |-> [url |-> url, length |-> length, type |-> type]]

NoItemOptional ==
    [link |-> None, author |-> None, pubDate |-> None, enclosure |-> None]

ItemOptionalVariants ==
    { NoItemOptional,
      [NoItemOptional EXCEPT
          !.link = Some(Plain("http://a.example/1")),
          !.author = Some(Plain("Jane Doe <jane@example.com>")),
          !.pubDate = Some(Plain(ValidDate)),
          !.enclosure = Some(EnclosureEl(Some("http://a.example/a.mp3"),
                                         Some("1024"), Some("audio/mpeg")))],
      [NoItemOptional EXCEPT
          !.enclosure = Some(EnclosureEl(Some("http://a.example/a.mp3"),
                                         None, Some("audio/mpeg")))],
      [NoItemOptional EXCEPT
          !.pubDate = Some(Plain(GarbageDate)),
          !.enclosure = Some(EnclosureEl(Some("http://a.example/a.mp3"),
                                         Some("-1"), Some("audio/mpeg")))],
      [NoItemOptional EXCEPT
          !.link = Some(Plain("http://a.example/2")),
          !.enclosure = Some(EnclosureEl(Some("http://a.example/a.mp3"),
                                         Some("garbage"),
                                         Some("audio/mpeg")))],
      [NoItemOptional EXCEPT
          !.enclosure = Some(EnclosureEl(Some("http://a.example/a.mp3"),
                                         Some("0"), Some("audio/mpeg")))],
      [NoItemOptional EXCEPT !.pubDate = Some(TextEl(None, None, None))] }

\* The <enclosure> elements of the model: each attribute present or not,
\* and every kind of length.
EnclosureEls ==
    { EnclosureEl(url, length, type) :
        url \in {None, Some("http://a.example/a.mp3")},
        length \in {None, Some("0"), Some("1024"), Some("-1"),
                    Some("garbage")},
        type \in {None, Some("audio/mpeg")} }

\* The <item> elements of the model.
ItemEls ==
    { [sourceline |-> None, title |-> title, description |-> description]
      @@ opt :
        title \in {None, Some(Plain("Item"))},
        description \in {None, Some(Plain("a &amp; b"))},
        opt \in ItemOptionalVariants }
    \cup
    \* an <item> whose <title> is empty, with and without a <description>
    { [sourceline |-> None, title |-> Some(TextEl(None, None, None)),
       description |-> description] @@ NoItemOptional :
        description \in {None, Some(Plain("a &amp; b"))} }
    \cup
    \* an <item> with a title and an <enclosure> of any kind
    { [sourceline |-> None, title |-> Some(Plain("Item")),
       description |-> None]
      @@ [NoItemOptional EXCEPT !.enclosure = Some(e)] : e \in EnclosureEls }

\* The <item> elements that stand next to others in a channel.
SiblingItemEls ==
    { i \in ItemEls :
        /\ i.title = None => i.description = None
        /\ i.description = None
              => i.enclosure \in {None,
                    Some(EnclosureEl(Some("http://a.example/a.mp3"),
                                     Some("-1"), Some("audio/mpeg")))}
        /\ i.description # None => i.pubDate # Some(Plain(GarbageDate))
        /\ i.title \in {None, Some(Plain("Item"))}
        /\ i.pubDate # Some(TextEl(None, None, None))
        /\ i.enclosure # None => Val(i.enclosure).attrib.length # Some("0") }

ValidItem ==
    [sourceline |-> None, title |-> Some(Plain("Item")),
     description |-> None] @@ NoItemOptional

ChannelEls ==
    { [sourceline |-> None, title |-> title, link |-> link,
       description |-> description, item |-> items,
       lastBuildDate |-> lastBuildDate] :
        title \in {None, Some(Plain("Channel"))},
        link \in {None, Some(Plain("http://a.example"))},
        description \in {None, Some(Plain("About"))},
        items \in {<<>>},
        lastBuildDate \in {None, Some(Plain(GarbageDate))} }
    \cup
    { [sourceline |-> None, title |-> Some(Plain("Channel")),
       link |-> Some(Plain("http://a.example")),
       description |-> Some(Plain("About")), item |-> items,
       lastBuildDate |-> None] :
        items \in { <<i>> : i \in ItemEls }
                  \cup SeqsUpTo(SiblingItemEls, MaxItems) }
    \cup
    \* a channel with every kind of <lastBuildDate>, with and without an item
    { [sourceline |-> None, title |-> Some(Plain("Channel")),
       link |-> Some(Plain("http://a.example")),
       description |-> Some(Plain("About")), item |-> items,
       lastBuildDate |-> lastBuildDate] :
        items \in {<<>>, <<ValidItem>>},
        lastBuildDate \in {Some(Plain(ValidDate)), Some(Plain(GarbageDate)),
                           Some(TextEl(None, None, None))} }
    \cup
    \* a channel that lacks mandatory children but has items
    { [sourceline |-> None, title |-> title, link |-> link,
       description |-> description,
       item |-> <<ValidItem, [ValidItem EXCEPT !.title = None]>>,
       lastBuildDate |-> Some(Plain(GarbageDate))] :
        title \in {None, Some(Plain("Channel"))},
        link \in {None, Some(Plain("http://a.example"))},
        description \in {None, Some(Plain("About"))} }

\* --- whole trees
\* The root element without children: its tag, line and version attribute.
Root(tag, line, version) ==
    [tag |-> tag, sourceline |-> line, attrib |-> [version |-> version],
     id |-> None, title |-> None, updated |-> None,
     author |-> <<>>, contributor |-> <<>>, subtitle |-> None, link |-> <<>>,
     entry |-> <<>>, channel |-> None]

AtomRoot(req, opt, entries) ==
    [Root(QName(ATOM_NAMESPACE, "feed"), None, None) EXCEPT
        !.id = req.id, !.title = req.title, !.updated = req.updated,
        !.author = opt.author, !.contributor = opt.contributor,
        !.subtitle = opt.subtitle, !.link = opt.link, !.entry = entries]

Tree(url, nsmap, root) == [url |-> url, nsmap |-> nsmap, root |-> root]

\* Feeds whose own children vary, with no entry, a valid one or a broken one.
FeedTrees ==
    { Tree(None, <<ATOM_NAMESPACE>>, AtomRoot(req, opt, entries)) :
        req \in RequiredVariants, opt \in FeedOptionalVariants,
        entries \in {<<>>, <<ValidEntry>>,
                     <<[ValidEntry EXCEPT !.id = None], ValidEntry>>} }

\* Valid feeds with one entry of any kind, or with several entries.
EntryTrees ==
    { Tree(None, <<ATOM_NAMESPACE>>,
           AtomRoot(ValidRequired, NoFeedOptional, <<entry>>)) :
        entry \in EntryEls }
    \cup
    { Tree(None, <<ATOM_NAMESPACE>>,
           AtomRoot(ValidRequired, NoFeedOptional, entries)) :
        entries \in SeqsUpTo(SiblingEntryEls, MaxEntries) }

\* Valid feeds whose links, or whose only entry's links, vary.
LinkTrees ==
    { Tree(None, <<ATOM_NAMESPACE>>,
           AtomRoot(ValidRequired,
                    [NoFeedOptional EXCEPT !.link = links], <<>>)) :
        links \in SeqsUpTo(LinkEls, MaxLinks) }
    \cup
    { Tree(None, <<ATOM_NAMESPACE>>,
           AtomRoot(ValidRequired, NoFeedOptional,
                    <<[ValidEntry EXCEPT !.link = links]>>)) :
        links \in SeqsUpTo(LinkEls, MaxLinks) }

\* Roots of every kind, with and without line numbers and document URL.
RootTrees ==
    { Tree(url, nsmap,
           [Root(tag, line, version) EXCEPT
               !.id = ValidRequired.id, !.title = ValidRequired.title,
               !.updated = IF line = None THEN ValidRequired.updated
                           ELSE None]) :
        url \in {None, Some(""), Some("http://a.example/feed.xml")},
        nsmap \in {<<>>, <<ATOM_NAMESPACE>>,
                   <<XHTML_NAMESPACE, AtomNamespaceAsPublished>>},
        tag \in {QName(ATOM_NAMESPACE, "feed"),
                 QName(AtomNamespaceAsPublished, "feed"),
                 QName("", "feed"), QName(ATOM_NAMESPACE, "rss"),
                 QName("", "rss"), QName("", "html"),
                 QName(XHTML_NAMESPACE, "html")},
        line \in {None, Some(1)},
        version \in {None, Some("2.0")} }

\* RSS documents of every version, and of version 2.0 with every channel.
RssTrees ==
    { Tree(None, <<>>,
           [Root(QName("", "rss"), None, version) EXCEPT !.channel = channel]) :
        version \in {None, Some("2.0"), Some("0.92"), Some("0.91"),
                     Some("1.0")},
        channel \in {None} \cup
                    { Some(c) : c \in {d \in ChannelEls : d.item = <<>>} } }
    \cup
    { Tree(None, <<>>,
           [Root(QName("", "rss"), None, Some("2.0")) EXCEPT
               !.channel = Some(c)]) : c \in ChannelEls }

\* The tree with every casing of the Atom namespace replaced by ns.
Recase(t, ns) ==
    [t EXCEPT
        !.nsmap = [i \in DOMAIN t.nsmap |->
                      IF Lower(t.nsmap[i]) = ATOM_NAMESPACE THEN ns
                      ELSE t.nsmap[i]],
        !.root.tag.ns = IF Lower(@) = ATOM_NAMESPACE THEN ns ELSE @]

\* Feeds in other casings of the namespace, and feeds that declare two
\* casings of it with the root in either.
CasedTrees ==
    { Recase(t, ns) :
        t \in { u \in FeedTrees :
                  /\ Len(u.root.entry) = 2
                  /\ \/ u.root.author = <<>> /\ u.root.contributor = <<>>
                        /\ u.root.subtitle = None /\ u.root.link = <<>>
                     \/ /\ u.root.id = ValidRequired.id
                        /\ u.root.title = ValidRequired.title
                        /\ u.root.updated = ValidRequired.updated }
              \cup
              { Tree(None, <<ATOM_NAMESPACE>>,
                     AtomRoot(ValidRequired, NoFeedOptional, <<e>>)) :
                  e \in SiblingEntryEls },
        ns \in {AtomNamespaceAsPublished, AtomNamespaceUpperCase} }
    \cup
    { Tree(None, nsmap,
           [AtomRoot(ValidRequired, NoFeedOptional, <<ValidEntry>>)
               EXCEPT !.tag = QName(ns, "feed")]) :
        nsmap \in {<<ATOM_NAMESPACE, AtomNamespaceAsPublished>>,
                   <<AtomNamespaceAsPublished, ATOM_NAMESPACE>>,
                   <<AtomNamespaceUpperCase, XHTML_NAMESPACE,
                     AtomNamespaceAsPublished>>},
        ns \in {ATOM_NAMESPACE, AtomNamespaceAsPublished,
                AtomNamespaceUpperCase} }

\* In lxml the namespace of the root is always among those it declares.
WellFormed(t) ==
    t.root.tag.ns # "" => \E i \in 1..Len(t.nsmap) : t.nsmap[i] = t.root.tag.ns

Trees ==
    { t \in FeedTrees \cup EntryTrees \cup LinkTrees \cup RootTrees
            \cup RssTrees \cup CasedTrees : WellFormed(t) }

\* ---------------------------------------------------------- state machine
VARIABLES
    tree,       \* the element tree handed to feed.parse_tree
    pc,         \* the call that runs next
    attempted,  \* the parsers feed.parse_tree has called, in order
    namespace,  \* _Parser.namespace of the Atom parser
    partial,    \* the mandatory fields the running parser has parsed
    idx,        \* the position of the next <entry> or <item>
    parsed,     \* the entries or items kept so far
    log,        \* the events logged, in order
    exc,        \* the exception being raised, None when there is none
    ret,        \* the value the running parser returned
    result,     \* the unified feed returned by feed.parse_tree
    view,       \* the last property read from the unified feed
    first,      \* the first property read from the unified feed
    procs,      \* the parser instances that run side by side
    sink,       \* the events the loggers of these parsers have emitted
    default_logger  \* DEFAULT_LOGGER of atom.py and of rss.py

parvars == <<procs, sink, default_logger>>

mainvars == <<tree, pc, attempted, namespace, partial, idx, parsed, log, exc,
              ret, result, view, first>>

vars == <<tree, pc, attempted, namespace, partial, idx, parsed, log, exc, ret,
          result, view, first, procs, sink, default_logger>>

\* structlog.wrap_logger(...): a logger with nothing bound
DEFAULT_LOGGER == [k \in {} |-> k]

\* logger.bind(**kwargs): a new logger, the receiver is left as it is
Bind(logger, kwargs) == kwargs @@ logger

\* logger.bind(source=self.tree.docinfo.URL)
AtomCtx == [source |-> tree.url]

\* the RSS logger after bind(rss_version=version)
RssCtx == [source |-> tree.url, rss_version |-> Val(partial).version]

Init ==
    /\ tree \in Trees
    /\ pc = "feed.parse_tree"
    /\ attempted = <<>>
    /\ namespace = ATOM_NAMESPACE
    /\ partial = None
    /\ idx = 1
    /\ parsed = <<>>
    /\ log = <<>>
    /\ exc = None
    /\ ret = None
    /\ result = None
    /\ view = None
    /\ first = None
    /\ procs = <<>>
    /\ sink = <<>>
    /\ default_logger = [atom |-> DEFAULT_LOGGER, rss |-> DEFAULT_LOGGER]

\* feed.parse_tree calls atom.parse_tree
CallAtom ==
    /\ pc = "feed.parse_tree"
    /\ pc' = "atom.parse"
    /\ attempted' = Append(attempted, "atom")
    /\ UNCHANGED <<tree, namespace, partial, idx, parsed, log, exc, ret,
                   result, view, first>>
    /\ UNCHANGED parvars

\* atom._Parser.parse
AtomParse ==
    /\ pc = "atom.parse"
    /\ namespace' = ResolveNamespace(tree.nsmap)
    /\ pc' = "atom.parse_feed"
    /\ UNCHANGED <<tree, attempted, partial, idx, parsed, log, exc, ret,
                   result, view, first>>
    /\ UNCHANGED parvars

\* atom._Parser.parse_feed up to the call of parse_entries
ParseFeedHead(t, ns) ==
    IF t.root.tag # QName(ns, "feed")
    THEN Raise(ParserError("atom.InvalidRoot", FormatTag(t.root.tag),
                           t.root.sourceline), <<>>)
    ELSE ParseRequired(t.root)

AtomParseFeed ==
    /\ pc = "atom.parse_feed"
    /\ LET r == ParseFeedHead(tree, namespace)
       IN  IF r.exc # None
           THEN /\ exc' = r.exc
                /\ pc' = "atom.raised"
                /\ UNCHANGED <<partial, idx, parsed>>
           ELSE /\ partial' = Some(r.val)
                /\ idx' = 1
                /\ parsed' = <<>>
                /\ pc' = "atom.parse_entries"
                /\ UNCHANGED exc
    /\ UNCHANGED <<tree, attempted, namespace, log, ret, result, view, first>>
    /\ UNCHANGED parvars

\* atom._Parser.parse_entries: one <entry> of the feed
AtomParseEntry ==
    /\ pc = "atom.parse_entries"
    /\ idx <= Len(tree.root.entry)
    /\ LET r == ParseEntry(AtomCtx, tree.root.entry[idx])
       IN  /\ log' = log \o r.logs
           /\ IF r.exc # None
              THEN /\ exc' = r.exc
                   /\ pc' = "atom.raised"
                   /\ UNCHANGED <<idx, parsed>>
              ELSE /\ parsed' = IF r.val = None THEN parsed
                                ELSE Append(parsed, Val(r.val))
                   /\ idx' = idx + 1
                   /\ UNCHANGED <<pc, exc>>
    /\ UNCHANGED <<tree, attempted, namespace, partial, ret, result, view, first>>
    /\ UNCHANGED parvars

\* atom._Parser.parse_feed after parse_entries: Feed(...)
AtomFinishFeed ==
    /\ pc = "atom.parse_entries"
    /\ idx > Len(tree.root.entry)
    /\ LET r == ParseFeedOptional(AtomCtx, tree.root)
       IN  /\ log' = log \o r.logs
           /\ IF r.exc # None
              THEN /\ exc' = r.exc
                   /\ pc' = "atom.raised"
                   /\ UNCHANGED ret
              ELSE /\ ret' = Some([id |-> Val(partial).id,
                                   title |-> Val(partial).title,
                                   updated |-> Val(partial).updated,
                                   entries |-> parsed] @@ r.val)
                   /\ pc' = "atom.returned"
                   /\ UNCHANGED exc
    /\ UNCHANGED <<tree, attempted, namespace, partial, idx, parsed, result,
                   view, first>>
    /\ UNCHANGED parvars

\* feed.parse_tree: return AtomFeed(atom.parse_tree(tree))
AtomReturned ==
    /\ pc = "atom.returned"
    /\ result' = Some([cls |-> "AtomFeed", feed |-> Val(ret)])
    /\ pc' = "done"
    /\ UNCHANGED <<tree, attempted, namespace, partial, idx, parsed, log, exc,
                   ret, view, first>>
    /\ UNCHANGED parvars

\* feed.parse_tree with except atom.MissingElement in place of InvalidRoot
AtomRaised_CatchesMissingElement ==
    /\ pc = "atom.raised"
    /\ IF Catches("atom.MissingElement", Val(exc))
       THEN /\ pc' = "rss.parse_rss"
            /\ attempted' = Append(attempted, "rss")
            /\ exc' = None
            /\ partial' = None
       ELSE /\ pc' = "raised"
            /\ UNCHANGED <<attempted, exc, partial>>
    /\ UNCHANGED <<tree, namespace, idx, parsed, log, ret, result, view, first>>
    /\ UNCHANGED parvars

\* feed.parse_tree: except atom.InvalidRoot, which calls rss.parse_tree
AtomRaised ==
    /\ pc = "atom.raised"
    /\ IF Catches("atom.InvalidRoot", Val(exc))
       THEN /\ pc' = "rss.parse_rss"
            /\ attempted' = Append(attempted, "rss")
            /\ exc' = None
            /\ partial' = None
       ELSE /\ pc' = "raised"
            /\ UNCHANGED <<attempted, exc, partial>>
    /\ UNCHANGED <<tree, namespace, idx, parsed, log, ret, result, view, first>>
    /\ UNCHANGED parvars

\* rss._Parser.parse_rss up to the call of parse_channel
RssParseRss ==
    /\ pc = "rss.parse_rss"
    /\ LET r == ParseRssHead(tree.root)
       IN  IF r.exc # None
           THEN /\ exc' = r.exc
                /\ pc' = "rss.raised"
                /\ UNCHANGED partial
           ELSE /\ partial' = Some([version |-> r.val])
                /\ pc' = "rss.parse_channel"
                /\ UNCHANGED exc
    /\ UNCHANGED <<tree, attempted, namespace, idx, parsed, log, ret, result,
                   view, first>>
    /\ UNCHANGED parvars

\* rss._Parser.parse_channel: the mandatory fields
RssParseChannel ==
    /\ pc = "rss.parse_channel"
    /\ LET r == ParseChannelRequired(tree.root)
       IN  IF r.exc # None
           THEN /\ exc' = r.exc
                /\ pc' = "rss.raised"
                /\ UNCHANGED <<partial, idx, parsed>>
           ELSE /\ partial' = Some([version |-> Val(partial).version] @@ r.val)
                /\ idx' = 1
                /\ parsed' = <<>>
                /\ pc' = "rss.parse_items"
                /\ UNCHANGED exc
    /\ UNCHANGED <<tree, attempted, namespace, log, ret, result, view, first>>
    /\ UNCHANGED parvars

\* rss._Parser.parse_channel: one <item> of the channel
RssParseItem ==
    /\ pc = "rss.parse_items"
    /\ idx <= Len(Val(tree.root.channel).item)
    /\ LET r == ParseItem(RssCtx, Val(tree.root.channel).item[idx])
       IN  /\ log' = log \o r.logs
           /\ IF r.exc # None
              THEN /\ exc' = r.exc
                   /\ pc' = "rss.raised"
                   /\ UNCHANGED <<idx, parsed>>
              ELSE /\ parsed' = IF r.val = None THEN parsed
                                ELSE Append(parsed, Val(r.val))
                   /\ idx' = idx + 1
                   /\ UNCHANGED <<pc, exc>>
    /\ UNCHANGED <<tree, attempted, namespace, partial, ret, result, view, first>>
    /\ UNCHANGED parvars

\* rss._Parser.parse_channel after the items: Channel(...), then RSS(...)
RssFinishChannel ==
    /\ pc = "rss.parse_items"
    /\ idx > Len(Val(tree.root.channel).item)
    /\ LET r == ParseChannelLastBuildDate(RssCtx, Val(tree.root.channel))
       IN  /\ log' = log \o r.logs
           /\ IF r.exc # None
              THEN /\ exc' = r.exc
                   /\ pc' = "rss.raised"
                   /\ UNCHANGED ret
              ELSE /\ ret' = Some([version |-> Val(partial).version,
                                   channel |->
                                     [title |-> Val(partial).title,
                                      link |-> Val(partial).link,
                                      description |-> Val(partial).description,
                                      last_build_date |-> r.val,
                                      items |-> parsed]])
                   /\ pc' = "rss.returned"
                   /\ UNCHANGED exc
    /\ UNCHANGED <<tree, attempted, namespace, partial, idx, parsed, result,
                   view, first>>
    /\ UNCHANGED parvars

\* feed.parse_tree: return RSSFeed(rss.parse_tree(tree))
RssReturned ==
    /\ pc = "rss.returned"
    /\ result' = Some([cls |-> "RSSFeed", feed |-> Val(ret)])
    /\ pc' = "done"
    /\ UNCHANGED <<tree, attempted, namespace, partial, idx, parsed, log, exc,
                   ret, view, first>>
    /\ UNCHANGED parvars

\* feed.parse_tree with except rss.RSSParserError in place of InvalidRoot
RssRaised_CatchesParserError ==
    /\ pc = "rss.raised"
    /\ exc' = IF Catches("rss.RSSParserError", Val(exc))
              THEN Some(NotAFeed(tree)) ELSE exc
    /\ pc' = "raised"
    /\ UNCHANGED <<tree, attempted, namespace, partial, idx, parsed, log, ret,
                   result, view, first>>
    /\ UNCHANGED parvars

\* feed.parse_tree: except rss.InvalidRoot, which raises NotAFeed
RssRaised ==
    /\ pc = "rss.raised"
    /\ exc' = IF Catches("rss.InvalidRoot", Val(exc))
              THEN Some(NotAFeed(tree)) ELSE exc
    /\ pc' = "raised"
    /\ UNCHANGED <<tree, attempted, namespace, partial, idx, parsed, log, ret,
                   result, view, first>>
    /\ UNCHANGED parvars

\* A property of the returned feed (of = 0) or of its entry number of.
Read(prop, of, r) ==
    [prop |-> prop, of |-> of, exc |-> r.exc, val |-> r.val]

\* feed.title
ReadTitle ==
    /\ pc = "done"
    /\ view' = Some(Read("title", 0, Ret(FeedTitle(Val(result)), <<>>)))
    /\ UNCHANGED <<tree, pc, attempted, namespace, partial, idx, parsed, log,
                   exc, ret, result>>
    /\ first' = IF first = None THEN view' ELSE first
    /\ UNCHANGED parvars

\* feed.links with a getter that hands out the links and forgets them
ReadLinks_Draining ==
    /\ pc = "done"
    /\ view' = Some(Read("links", 0, Ret(FeedLinks(Val(result)), <<>>)))
    /\ result' = IF Val(result).cls = "AtomFeed"
                 THEN Some([Val(result) EXCEPT !.feed.links = <<>>])
                 ELSE Some([Val(result) EXCEPT !.feed.channel.link = ""])
    /\ UNCHANGED <<tree, pc, attempted, namespace, partial, idx, parsed, log,
                   exc, ret>>
    /\ first' = IF first = None THEN view' ELSE first
    /\ UNCHANGED parvars

\* feed.links
ReadLinks ==
    /\ pc = "done"
    /\ view' = Some(Read("links", 0, Ret(FeedLinks(Val(result)), <<>>)))
    /\ UNCHANGED <<tree, pc, attempted, namespace, partial, idx, parsed, log,
                   exc, ret, result>>
    /\ first' = IF first = None THEN view' ELSE first
    /\ UNCHANGED parvars

\* feed.website
ReadWebsite ==
    /\ pc = "done"
    /\ view' = Some(Read("website", 0,
                         Ret(Website(FeedLinks(Val(result))), <<>>)))
    /\ UNCHANGED <<tree, pc, attempted, namespace, partial, idx, parsed, log,
                   exc, ret, result>>
    /\ first' = IF first = None THEN view' ELSE first
    /\ UNCHANGED parvars

\* feed.entries
ReadEntries ==
    /\ pc = "done"
    /\ view' = Some(Read("entries", 0, FeedEntries(Val(result))))
    /\ UNCHANGED <<tree, pc, attempted, namespace, partial, idx, parsed, log,
                   exc, ret, result>>
    /\ first' = IF first = None THEN view' ELSE first
    /\ UNCHANGED parvars

\* feed.entries[i - 1].website of an Atom feed
ReadEntryWebsite ==
    /\ pc = "done"
    /\ Val(result).cls = "AtomFeed"
    /\ \E i \in 1..Len(Val(result).feed.entries) :
          view' = Some(Read("website", i,
                            Ret(Website(AtomLinks(Val(result).feed.entries[i])),
                                <<>>)))
    /\ UNCHANGED <<tree, pc, attempted, namespace, partial, idx, parsed, log,
                   exc, ret, result>>
    /\ first' = IF first = None THEN view' ELSE first
    /\ UNCHANGED parvars

\* AtomEntry(entry).links of an entry of the parsed Atom feed
ReadEntryLinks ==
    /\ pc = "done"
    /\ Val(result).cls = "AtomFeed"
    /\ \E i \in 1..Len(Val(result).feed.entries) :
          view' = Some(Read("links", i,
                            Ret(AtomLinks(Val(result).feed.entries[i]), <<>>)))
    /\ UNCHANGED <<tree, pc, attempted, namespace, partial, idx, parsed, log,
                   exc, ret, result>>
    /\ first' = IF first = None THEN view' ELSE first
    /\ UNCHANGED parvars

\* AtomEntry(entry).content of an entry of the parsed Atom feed
ReadEntryContent ==
    /\ pc = "done"
    /\ Val(result).cls = "AtomFeed"
    /\ \E i \in 1..Len(Val(result).feed.entries) :
          view' = Some(Read("content", i,
                            Ret(AtomEntryContent(Val(result).feed.entries[i]),
                                <<>>)))
    /\ UNCHANGED <<tree, pc, attempted, namespace, partial, idx, parsed, log,
                   exc, ret, result>>
    /\ first' = IF first = None THEN view' ELSE first
    /\ UNCHANGED parvars

\* RSSEntry(item).links of an item of the parsed RSS channel
ReadItemLinks ==
    /\ pc = "done"
    /\ Val(result).cls = "RSSFeed"
    /\ \E i \in 1..Len(Val(result).feed.channel.items) :
          view' = Some(Read("links", i,
                            Ret(RSSEntryLinks(Val(result).feed.channel.items[i]),
                                <<>>)))
    /\ UNCHANGED <<tree, pc, attempted, namespace, partial, idx, parsed, log,
                   exc, ret, result>>
    /\ first' = IF first = None THEN view' ELSE first
    /\ UNCHANGED parvars

\* RSSEntry(item).website of an item of the parsed RSS channel
ReadItemWebsite ==
    /\ pc = "done"
    /\ Val(result).cls = "RSSFeed"
    /\ \E i \in 1..Len(Val(result).feed.channel.items) :
          view' = Some(Read("website", i,
                            Ret(Website(RSSEntryLinks(
                                   Val(result).feed.channel.items[i])),
                                <<>>)))
    /\ UNCHANGED <<tree, pc, attempted, namespace, partial, idx, parsed, log,
                   exc, ret, result>>
    /\ first' = IF first = None THEN view' ELSE first
    /\ UNCHANGED parvars

\* RSSEntry(item).content of an item of the parsed RSS channel
ReadItemContent ==
    /\ pc = "done"
    /\ Val(result).cls = "RSSFeed"
    /\ \E i \in 1..Len(Val(result).feed.channel.items) :
          view' = Some(Read("content", i,
                            Ret(RSSEntryContent(
                                   Val(result).feed.channel.items[i]),
                                <<>>)))
    /\ UNCHANGED <<tree, pc, attempted, namespace, partial, idx, parsed, log,
                   exc, ret, result>>
    /\ first' = IF first = None THEN view' ELSE first
    /\ UNCHANGED parvars

Next ==
    \/ CallAtom
    \/ AtomParse
    \/ AtomParseFeed
    \/ AtomParseEntry
    \/ AtomFinishFeed
    \/ AtomReturned
    \/ AtomRaised
    \/ RssParseRss
    \/ RssParseChannel
    \/ RssParseItem
    \/ RssFinishChannel
    \/ RssReturned
    \/ RssRaised
    \/ ReadTitle
    \/ ReadLinks
    \/ ReadWebsite
    \/ ReadEntries
    \/ ReadEntryWebsite
    \/ ReadEntryLinks
    \/ ReadEntryContent
    \/ ReadItemLinks
    \/ ReadItemWebsite
    \/ ReadItemContent

Spec == Init /\ [][Next]_vars

\* ------------------------------------------------------------------
\* Parser instances running side by side
\* ------------------------------------------------------------------

\* atom.parse_tree(tree) run from start to end: _Parser(tree).parse()
AtomParseTree(t) ==
    LET ctx == Bind(DEFAULT_LOGGER, [source |-> t.url])
        head == ParseFeedHead(t, ResolveNamespace(t.nsmap))
        entries == ParseEach([i \in 1..Len(t.root.entry) |->
                                 ParseEntry(ctx, t.root.entry[i])])
        opt == ParseFeedOptional(ctx, t.root)
    IN  IF head.exc # None THEN head
        ELSE IF entries.exc # None THEN entries
        ELSE IF opt.exc # None
        THEN Raise(Val(opt.exc), entries.logs \o opt.logs)
        ELSE Ret([id |-> head.val.id, title |-> head.val.title,
                  updated |-> head.val.updated,
                  entries |-> entries.val] @@ opt.val,
                 entries.logs \o opt.logs)

\* rss.parse_tree(tree) run from start to end: _Parser(tree).parse()
RssParseTree(t) ==
    LET head == ParseRssHead(t.root)
        ctx == Bind(Bind(DEFAULT_LOGGER, [source |-> t.url]),
                    [rss_version |-> head.val])
        channel == ParseChannelRequired(t.root)
        items == ParseEach([i \in 1..Len(Val(t.root.channel).item) |->
                               ParseItem(ctx, Val(t.root.channel).item[i])])
        date == ParseChannelLastBuildDate(ctx, Val(t.root.channel))
    IN  IF head.exc # None THEN head
        ELSE IF channel.exc # None THEN channel
        ELSE IF items.exc # None THEN items
        ELSE IF date.exc # None
        THEN Raise(Val(date.exc), items.logs \o date.logs)
        ELSE Ret([version |-> head.val,
                  channel |-> [title |-> channel.val.title,
                               link |-> channel.val.link,
                               description |-> channel.val.description,
                               last_build_date |-> date.val,
                               items |-> items.val]],
                 items.logs \o date.logs)

\* The number of parser instances that run side by side.
MaxParsers == 2

Parsers == 1..MaxParsers

\* An Atom feed with a document URL whose two entries are both dropped.
ParAtomLower ==
    Tree(Some("http://a.example/feed.xml"), <<ATOM_NAMESPACE>>,
         AtomRoot(ValidRequired, NoFeedOptional,
                  <<[ValidEntry EXCEPT !.id = None],
                    [ValidEntry EXCEPT
                        !.updated = Some(Plain(GarbageDate))]>>))

\* An Atom feed in the published casing with an entry and a link without href.
ParAtomPublished ==
    Tree(None, <<XHTML_NAMESPACE, AtomNamespaceAsPublished>>,
         [AtomRoot(ValidRequired,
                   [NoFeedOptional EXCEPT !.link = <<HreflessLink>>],
                   <<ValidEntry>>)
             EXCEPT !.tag = QName(AtomNamespaceAsPublished, "feed")])

\* An Atom feed without <title>.
ParAtomUntitled ==
    Tree(Some(""), <<ATOM_NAMESPACE>>,
         AtomRoot([ValidRequired EXCEPT !.title = None], NoFeedOptional,
                  <<>>))

\* An RSS document whose first item is dropped and whose date is dropped.
ParRss ==
    Tree(Some("http://b.example/rss.xml"), <<>>,
         [Root(QName("", "rss"), None, Some("2.0")) EXCEPT
             !.channel =
                Some([sourceline |-> None, title |-> Some(Plain("Channel")),
                      link |-> Some(Plain("http://a.example")),
                      description |-> Some(Plain("About")),
                      item |-> <<[ValidItem EXCEPT !.title = None],
                                 ValidItem>>,
                      lastBuildDate |-> Some(Plain(GarbageDate))])])

\* An RSS document of a version that is not supported.
ParRssOld == Tree(None, <<>>, Root(QName("", "rss"), Some(1), Some("1.0")))

\* What a parser instance is created for: the module and the tree.
ParInputs ==
    { [kind |-> "atom", tree |-> ParAtomLower],
      [kind |-> "atom", tree |-> ParAtomPublished],
      [kind |-> "atom", tree |-> ParAtomUntitled],
      [kind |-> "rss", tree |-> ParRss],
      [kind |-> "rss", tree |-> ParRssOld],
      [kind |-> "rss", tree |-> ParAtomUntitled] }

\* A parser instance before _Parser.__init__ has run.
NewParser(input) ==
    [kind |-> input.kind, tree |-> input.tree, pc |-> "new",
     namespace |-> "", logger |-> None, partial |-> None, idx |-> 1,
     parsed |-> <<>>, exc |-> None, ret |-> None]

\* The events as the loggers' common output receives them.
Emit(p, logs) == [i \in 1..Len(logs) |-> [parser |-> p, event |-> logs[i]]]

\* feed.parse_tree is not called; each parser is given a tree of its own.
InitPar ==
    /\ tree = None
    /\ pc = "none"
    /\ attempted = <<>>
    /\ namespace = ATOM_NAMESPACE
    /\ partial = None
    /\ idx = 1
    /\ parsed = <<>>
    /\ log = <<>>
    /\ exc = None
    /\ ret = None
    /\ result = None
    /\ view = None
    /\ first = None
    /\ procs \in { f \in [Parsers -> { NewParser(i) : i \in ParInputs }] :
                     \A p, q \in Parsers : p # q => f[p].tree # f[q].tree }
    /\ sink = <<>>
    /\ default_logger = [atom |-> DEFAULT_LOGGER, rss |-> DEFAULT_LOGGER]

\* _Parser.__init__ of atom.py and of rss.py
ParInit(p) ==
    /\ procs[p].pc = "new"
    /\ procs' = [procs EXCEPT
          ![p].logger = Some(Bind(default_logger[procs[p].kind],
                                  [source |-> procs[p].tree.url])),
          ![p].namespace = IF procs[p].kind = "atom" THEN ATOM_NAMESPACE
                           ELSE @,
          ![p].pc = IF procs[p].kind = "atom" THEN "atom.parse"
                    ELSE "rss.parse_rss"]
    /\ UNCHANGED <<sink, default_logger>>
    /\ UNCHANGED mainvars

\* atom._Parser.parse with the namespace kept on the class, for all instances
ParAtomParse_SharedNamespace(p) ==
    /\ procs[p].pc = "atom.parse"
    /\ procs' = [q \in Parsers |->
                    IF q = p
                    THEN [procs[q] EXCEPT
                            !.namespace = ResolveNamespace(procs[p].tree.nsmap),
                            !.pc = "atom.parse_feed"]
                    ELSE [procs[q] EXCEPT
                            !.namespace =
                               ResolveNamespace(procs[p].tree.nsmap)]]
    /\ UNCHANGED <<sink, default_logger>>
    /\ UNCHANGED mainvars

\* atom._Parser.parse
ParAtomParse(p) ==
    /\ procs[p].pc = "atom.parse"
    /\ procs' = [procs EXCEPT
          ![p].namespace = ResolveNamespace(procs[p].tree.nsmap),
          ![p].pc = "atom.parse_feed"]
    /\ UNCHANGED <<sink, default_logger>>
    /\ UNCHANGED mainvars

\* atom._Parser.parse_feed up to the call of parse_entries
ParAtomParseFeed(p) ==
    /\ procs[p].pc = "atom.parse_feed"
    /\ LET r == ParseFeedHead(procs[p].tree, procs[p].namespace)
       IN  procs' = IF r.exc # None
                    THEN [procs EXCEPT ![p].exc = r.exc, ![p].pc = "raised"]
                    ELSE [procs EXCEPT ![p].partial = Some(r.val),
                                       ![p].pc = "atom.parse_entries"]
    /\ UNCHANGED <<sink, default_logger>>
    /\ UNCHANGED mainvars

\* atom._Parser.parse_entries: one <entry> of the feed
ParAtomParseEntry(p) ==
    /\ procs[p].pc = "atom.parse_entries"
    /\ procs[p].idx <= Len(procs[p].tree.root.entry)
    /\ LET r == ParseEntry(Val(procs[p].logger),
                           procs[p].tree.root.entry[procs[p].idx])
       IN  /\ sink' = sink \o Emit(p, r.logs)
           /\ procs' = IF r.exc # None
                       THEN [procs EXCEPT ![p].exc = r.exc,
                                          ![p].pc = "raised"]
                       ELSE [procs EXCEPT
                               ![p].parsed = IF r.val = None THEN @
                                             ELSE Append(@, Val(r.val)),
                               ![p].idx = @ + 1]
    /\ UNCHANGED default_logger
    /\ UNCHANGED mainvars

\* atom._Parser.parse_feed after parse_entries: Feed(...)
ParAtomFinishFeed(p) ==
    /\ procs[p].pc = "atom.parse_entries"
    /\ procs[p].idx > Len(procs[p].tree.root.entry)
    /\ LET r == ParseFeedOptional(Val(procs[p].logger), procs[p].tree.root)
       IN  /\ sink' = sink \o Emit(p, r.logs)
           /\ procs' = IF r.exc # None
                       THEN [procs EXCEPT ![p].exc = r.exc,
                                          ![p].pc = "raised"]
                       ELSE [procs EXCEPT
                               ![p].ret =
                                  Some([id |-> Val(procs[p].partial).id,
                                        title |-> Val(procs[p].partial).title,
                                        updated |->
                                           Val(procs[p].partial).updated,
                                        entries |-> procs[p].parsed]
                                       @@ r.val),
                               ![p].pc = "returned"]
    /\ UNCHANGED default_logger
    /\ UNCHANGED mainvars

\* rss._Parser.parse_rss up to the call of parse_channel
ParRssParseRss(p) ==
    /\ procs[p].pc = "rss.parse_rss"
    /\ LET r == ParseRssHead(procs[p].tree.root)
       IN  procs' = IF r.exc # None
                    THEN [procs EXCEPT ![p].exc = r.exc, ![p].pc = "raised"]
                    ELSE [procs EXCEPT
                            ![p].partial = Some([version |-> r.val]),
                            ![p].logger = Some(Bind(Val(@),
                                                    [rss_version |-> r.val])),
                            ![p].pc = "rss.parse_channel"]
    /\ UNCHANGED <<sink, default_logger>>
    /\ UNCHANGED mainvars

\* rss._Parser.parse_channel: the mandatory fields
ParRssParseChannel(p) ==
    /\ procs[p].pc = "rss.parse_channel"
    /\ LET r == ParseChannelRequired(procs[p].tree.root)
       IN  procs' = IF r.exc # None
                    THEN [procs EXCEPT ![p].exc = r.exc, ![p].pc = "raised"]
                    ELSE [procs EXCEPT
                            ![p].partial = Some([version |-> Val(@).version]
                                                @@ r.val),
                            ![p].pc = "rss.parse_items"]
    /\ UNCHANGED <<sink, default_logger>>
    /\ UNCHANGED mainvars

\* rss._Parser.parse_channel: one <item> of the channel
ParRssParseItem(p) ==
    /\ procs[p].pc = "rss.parse_items"
    /\ procs[p].idx <= Len(Val(procs[p].tree.root.channel).item)
    /\ LET r == ParseItem(Val(procs[p].logger),
                          Val(procs[p].tree.root.channel).item[procs[p].idx])
       IN  /\ sink' = sink \o Emit(p, r.logs)
           /\ procs' = IF r.exc # None
                       THEN [procs EXCEPT ![p].exc = r.exc,
                                          ![p].pc = "raised"]
                       ELSE [procs EXCEPT
                               ![p].parsed = IF r.val = None THEN @
                                             ELSE Append(@, Val(r.val)),
                               ![p].idx = @ + 1]
    /\ UNCHANGED default_logger
    /\ UNCHANGED mainvars

\* rss._Parser.parse_channel after the items: Channel(...), then RSS(...)
ParRssFinishChannel(p) ==
    /\ procs[p].pc = "rss.parse_items"
    /\ procs[p].idx > Len(Val(procs[p].tree.root.channel).item)
    /\ LET r == ParseChannelLastBuildDate(Val(procs[p].logger),
                                          Val(procs[p].tree.root.channel))
           head == Val(procs[p].partial)
       IN  /\ sink' = sink \o Emit(p, r.logs)
           /\ procs' = IF r.exc # None
                       THEN [procs EXCEPT ![p].exc = r.exc,
                                          ![p].pc = "raised"]
                       ELSE [procs EXCEPT
                               ![p].ret =
                                  Some([version |-> head.version,
                                        channel |->
                                          [title |-> head.title,
                                           link |-> head.link,
                                           description |-> head.description,
                                           last_build_date |-> r.val,
                                           items |-> procs[p].parsed]]),
                               ![p].pc = "returned"]
    /\ UNCHANGED default_logger
    /\ UNCHANGED mainvars

NextPar ==
    \/ \E p \in Parsers : ParInit(p)
    \/ \E p \in Parsers : ParAtomParse(p)
    \/ \E p \in Parsers : ParAtomParseFeed(p)
    \/ \E p \in Parsers : ParAtomParseEntry(p)
    \/ \E p \in Parsers : ParAtomFinishFeed(p)
    \/ \E p \in Parsers : ParRssParseRss(p)
    \/ \E p \in Parsers : ParRssParseChannel(p)
    \/ \E p \in Parsers : ParRssParseItem(p)
    \/ \E p \in Parsers : ParRssFinishChannel(p)

SpecPar == InitPar /\ [][NextPar]_vars

\* ------------------------------------------------------------- properties
\* The exception names the source: the document URL, or the tree without one.
NamesSource(e) ==
    IF tree.url # None /\ tree.url # Some("")
    THEN e.args0.msg = <<Val(tree.url)>> /\ e.source = None
    ELSE e.source = Some(tree)

IsAtomInvalidRoot(e) == e # None /\ Val(e).cls = "atom.InvalidRoot"
IsRssInvalidRoot(e) == e # None /\ Val(e).cls = "rss.InvalidRoot"

\* C1: feed.parse_tree runs the Atom parser first and the RSS parser only
\* after the Atom parser failed with InvalidRoot; an RSS InvalidRoot becomes
\* NotAFeed naming the source; a tree the Atom parser accepts is returned as
\* an AtomFeed wrapping its result and the RSS parser does not run on it.
C1_DispatchOrder ==
    /\ [](attempted \in {<<>>, <<"atom">>, <<"atom", "rss">>})
    /\ [](pc \in {"atom.parse", "atom.parse_feed", "atom.parse_entries",
                  "atom.returned", "atom.raised"} => attempted = <<"atom">>)
    /\ [][attempted' # attempted /\ attempted # <<>>
            => /\ pc = "atom.raised"
               /\ IsAtomInvalidRoot(exc)
               /\ attempted' = <<"atom", "rss">>]_vars
    /\ [][pc = "atom.raised" /\ IsAtomInvalidRoot(exc)
            => pc' = "rss.parse_rss" /\ attempted' = <<"atom", "rss">>]_vars
    /\ [][pc = "rss.raised" /\ IsRssInvalidRoot(exc)
            => /\ pc' = "raised"
               /\ exc' # None
               /\ Val(exc').cls = "feed.NotAFeed"
               /\ NamesSource(Val(exc'))]_vars
    /\ [][pc = "atom.returned"
            => /\ pc' = "done"
               /\ result' = Some([cls |-> "AtomFeed", feed |-> Val(ret)])
               /\ attempted' = <<"atom">>]_vars
    /\ [](result # None /\ Val(result).cls = "AtomFeed"
            => attempted = <<"atom">>)

\* Both parsers rejected the root and NotAFeed came out.
C1_Witness ==
    /\ pc = "raised"
    /\ attempted = <<"atom", "rss">>
    /\ Val(exc).cls = "feed.NotAFeed"
    /\ tree.url = Some("http://a.example/feed.xml")

\* C2: a parser failure other than InvalidRoot leaves feed.parse_tree as it
\* was raised: after an Atom failure the RSS parser is not attempted, and an
\* RSS failure is not turned into NotAFeed.
C2_OtherFailuresPropagate ==
    /\ [][pc = "atom.raised" /\ ~IsAtomInvalidRoot(exc)
            => pc' = "raised" /\ exc' = exc /\ attempted' = <<"atom">>]_vars
    /\ [][pc = "rss.raised" /\ ~IsRssInvalidRoot(exc)
            => pc' = "raised" /\ exc' = exc]_vars
    /\ [][pc = "raised" => exc' = exc /\ attempted' = attempted]_vars
    /\ [](pc = "raised" /\ attempted = <<"atom">>
            => Val(exc).cls \notin {"feed.NotAFeed", "atom.InvalidRoot"})

\* An RSS failure that is not InvalidRoot reached the caller.
C2_Witness ==
    /\ pc = "raised"
    /\ attempted = <<"atom", "rss">>
    /\ Val(exc).cls = "rss.VersionNotSupported"

\* The root is named neither feed nor rss.
RootNeitherFeedNorRss == tree.root.tag.local \notin {"feed", "rss"}

\* The root is <rss> without a version attribute.
RootRssWithoutVersion ==
    tree.root.tag = QName("", "rss") /\ tree.root.attrib.version = None

\* C3 as stated: a root that is neither <feed> nor <rss>, and also an <rss>
\* root without version, ends in NotAFeed after both parsers were attempted.
C3_AsStated ==
    (pc = "raised" /\ (RootNeitherFeedNorRss \/ RootRssWithoutVersion))
        => /\ Val(exc).cls = "feed.NotAFeed"
           /\ NamesSource(Val(exc))
           /\ attempted = <<"atom", "rss">>

\* C3 amended: a root that is neither <feed> nor <rss> ends in NotAFeed
\* naming the source after both parsers were attempted; an <rss> root
\* without version ends in the RSS parser's MissingAttribute, also after
\* both parsers were attempted, and never in NotAFeed.
C3_NotAFeedOnlyForForeignRoot ==
    /\ (RootNeitherFeedNorRss \/ RootRssWithoutVersion)
          => pc \notin {"done", "atom.returned", "rss.returned",
                        "atom.parse_entries", "rss.parse_channel",
                        "rss.parse_items"}
    /\ (pc = "raised" /\ RootNeitherFeedNorRss)
          => /\ Val(exc).cls = "feed.NotAFeed"
             /\ NamesSource(Val(exc))
             /\ attempted = <<"atom", "rss">>
    /\ (pc = "raised" /\ RootRssWithoutVersion)
          => /\ Val(exc).cls = "rss.MissingAttribute"
             /\ Val(exc).lineno = tree.root.sourceline
             /\ attempted = <<"atom", "rss">>

\* An <rss> root without version was rejected by both parsers.
C3_Witness ==
    /\ pc = "raised"
    /\ RootRssWithoutVersion
    /\ attempted = <<"atom", "rss">>
    /\ Val(exc).cls = "rss.MissingAttribute"

\* --- what an element tree contains, told from the tree alone
IsAtomFeedRoot ==
    tree.root.tag.local = "feed" /\ Lower(tree.root.tag.ns) = ATOM_NAMESPACE

TypeOf(element) ==
    IF element.attrib.type = None THEN "text" ELSE Val(element.attrib.type)

IsXhtml(opt) == opt # None /\ TypeOf(Val(opt)) = "xhtml"

\* A mandatory child is present but has no text where the text is needed.
EmptyMandatory(el) ==
    \/ el.updated # None /\ Val(el.updated).text = None
    \/ el.title # None /\ TypeOf(Val(el.title)) = "html"
                       /\ Val(el.title).text = None

\* id, title or updated is missing or invalid.
RequiredDefect(el) ==
    \/ el.id = None
    \/ el.title = None
    \/ IsXhtml(el.title)
    \/ el.updated = None
    \/ Val(el.updated).text # Some(ValidDate)

\* id, title and updated are present and valid.
RequiredValid(el) == ~RequiredDefect(el) /\ ~EmptyMandatory(el)

AllNamed(el) ==
    /\ \A i \in 1..Len(el.author) : el.author[i].name # None
    /\ \A i \in 1..Len(el.contributor) : el.contributor[i].name # None

ContentIsMime(el) ==
    el.content # None /\ TypeOf(Val(el.content)) \notin {"text", "html", "xhtml"}

TextOrNone(opt) == IF opt = None THEN None ELSE Val(opt).text

\* The Person of a person element that has a name.
PersonOf(el) ==
    [name |-> Val(el.name).text, uri |-> TextOrNone(el.uri),
     email |-> TextOrNone(el.email)]

\* The persons of a list of person elements that have a name, in order.
NamedPersons(els) ==
    LET named == SelectSeq(els, LAMBDA el : el.name # None)
    IN  [i \in 1..Len(named) |-> PersonOf(named[i])]

\* The event logged for a dropped entry tells one of the entry's defects.
TellsDefect(event, el) ==
    /\ event.event = "invalid-entry"
    /\ event.lineno \in {el.sourceline} \cup
          { Val(el[f]).sourceline : f \in {g \in {"title", "updated"} :
                                             el[g] # None} }
    /\ \/ /\ event.cause = "missing-element"
          /\ \E f \in {"id", "title", "updated"} :
                el[f] = None /\ event.element.msg = <<"<atom:", f, ">">>
       \/ /\ event.cause = "invalid-date"
          /\ el.updated # None
          /\ Some(event.date) = Val(el.updated).text
          /\ event.date # ValidDate
       \/ /\ event.cause = "not-implemented-error"
          /\ IsXhtml(el.title)

\* C4 as stated: an <entry> whose id, title or updated is missing or invalid
\* is dropped with exactly one invalid-entry event telling the failure, its
\* optional fields are not parsed, the parse goes on, and the feed returned
\* has the other entries, parsed, in document order.
C4_AsStated ==
    /\ [][(/\ pc = "atom.parse_entries"
           /\ idx <= Len(tree.root.entry)
           /\ RequiredDefect(tree.root.entry[idx]))
            => /\ pc' = "atom.parse_entries"
               /\ exc' = None
               /\ idx' = idx + 1
               /\ parsed' = parsed
               /\ Len(log') = Len(log) + 1
               /\ SubSeq(log', 1, Len(log)) = log
               /\ TellsDefect(log'[Len(log')], tree.root.entry[idx])]_vars
    /\ [](pc = "atom.returned"
            => LET kept == SelectSeq(tree.root.entry,
                                     LAMBDA el : ~RequiredDefect(el))
               IN  /\ Len(Val(ret).entries) = Len(kept)
                   /\ \A i \in 1..Len(kept) :
                         Some(Val(ret).entries[i])
                            = ParseEntry(AtomCtx, kept[i]).val)

\* No child of the feed or of an entry other than a person can make the parse
\* fail: the feed's mandatory fields are valid, no mandatory field is empty
\* and no content is of a MIME type.
OnlyPersonsCanFail ==
    /\ IsAtomFeedRoot
    /\ RequiredValid(tree.root)
    /\ ~IsXhtml(tree.root.subtitle)
    /\ \A i \in 1..Len(tree.root.entry) :
          /\ ~EmptyMandatory(tree.root.entry[i])
          /\ ~ContentIsMime(tree.root.entry[i])

\* C5 as stated: a person without <name> is logged and left out of authors
\* or contributors, the other persons are kept, and neither the entry nor
\* the feed parse is aborted.
C5_AsStated ==
    (/\ OnlyPersonsCanFail
     /\ \/ ~AllNamed(tree.root)
        \/ \E i \in 1..Len(tree.root.entry) :
              /\ RequiredValid(tree.root.entry[i])
              /\ ~AllNamed(tree.root.entry[i]))
    => /\ pc \notin {"atom.raised", "raised"}
       /\ pc = "atom.returned"
            => /\ Val(ret).authors = NamedPersons(tree.root.author)
               /\ Val(ret).contributors = NamedPersons(tree.root.contributor)
               /\ log # <<>>

\* No child other than an xhtml text construct can make the parse fail.
OnlyXhtmlCanFail ==
    /\ IsAtomFeedRoot
    /\ RequiredValid(tree.root)
    /\ AllNamed(tree.root)
    /\ \A i \in 1..Len(tree.root.entry) :
          /\ ~EmptyMandatory(tree.root.entry[i])
          /\ ~ContentIsMime(tree.root.entry[i])
          /\ AllNamed(tree.root.entry[i])

\* C6 as stated: an xhtml text construct in the summary or content of an
\* entry or in the subtitle of the feed is logged, the field is None and the
\* parse does not fail.
C6_AsStated ==
    (/\ OnlyXhtmlCanFail
     /\ \/ IsXhtml(tree.root.subtitle)
        \/ \E i \in 1..Len(tree.root.entry) :
              /\ RequiredValid(tree.root.entry[i])
              /\ \/ IsXhtml(tree.root.entry[i].summary)
                 \/ IsXhtml(tree.root.entry[i].content))
    => /\ pc \notin {"atom.raised", "raised"}
       /\ pc = "atom.returned"
            => /\ log # <<>>
               /\ IsXhtml(tree.root.subtitle) => Val(ret).subtitle = None
               /\ LET kept == SelectSeq(tree.root.entry,
                                        LAMBDA el : ~RequiredDefect(el))
                  IN  \A i \in 1..Len(kept) :
                         /\ IsXhtml(kept[i].summary)
                               => Val(ret).entries[i].summary = None
                         /\ IsXhtml(kept[i].content)
                               => Val(ret).entries[i].content = None

\* C7 as stated: a <content> whose type is a MIME type gives a Content with
\* that type, the src attribute and value None; the entry is kept and the
\* parse does not fail.
C7_AsStated ==
    [][(/\ pc = "atom.parse_entries"
        /\ idx <= Len(tree.root.entry)
        /\ RequiredValid(tree.root.entry[idx])
        /\ AllNamed(tree.root.entry[idx])
        /\ ContentIsMime(tree.root.entry[idx]))
         => /\ pc' = "atom.parse_entries"
            /\ exc' = None
            /\ Len(parsed') = Len(parsed) + 1
            /\ parsed'[Len(parsed')].content
                  = Some([type |-> TypeOf(Val(tree.root.entry[idx].content)),
                          src |-> Val(tree.root.entry[idx].content).attrib.src,
                          value |-> None])]_vars

\* C8 as stated: entries of an RSSFeed is one RSSEntry per item of
\* channel.items, in channel order.
C8_AsStated ==
    (/\ view # None
     /\ Val(view).prop = "entries"
     /\ Val(result).cls = "RSSFeed")
    => /\ Val(view).exc = None
       /\ Val(view).val
             = [i \in 1..Len(Val(result).feed.channel.items) |->
                   [cls |-> "RSSEntry",
                    item |-> Val(result).feed.channel.items[i]]]

\* The links a website is derived from: of the feed (of = 0) or of an entry.
LinksOf(of) ==
    IF of = 0 THEN FeedLinks(Val(result))
    ELSE IF Val(result).cls = "AtomFeed"
    THEN AtomLinks(Val(result).feed.entries[of])
    ELSE RSSEntryLinks(Val(result).feed.channel.items[of])

IsCandidate(link) == link.rel = "alternate" /\ link.type = Some("text/html")

\* C9: the website is None when no link is an alternate text/html link;
\* otherwise it is the first such link without hreflang or, when all of
\* them have one, the first such link, wherever the links stand.
C9_WebsiteDerivation ==
    (view # None /\ Val(view).prop = "website")
    => LET links == LinksOf(Val(view).of)
           cands == {i \in 1..Len(links) : IsCandidate(links[i])}
           plain == {i \in cands : links[i].hreflang = None}
           website == Val(view).val
       IN  /\ Val(view).exc = None
           /\ cands = {} => website = None
           /\ plain # {}
                 => \E i \in plain : /\ website = Some(links[i])
                                     /\ \A j \in plain : i <= j
           /\ (cands # {} /\ plain = {})
                 => \E i \in cands : /\ website = Some(links[i])
                                     /\ \A j \in cands : i <= j

\* The website is the link without hreflang although a translation precedes it.
C9_Witness ==
    /\ view # None
    /\ Val(view).prop = "website"
    /\ Val(view).val # None
    /\ Val(Val(view).val).hreflang = None
    /\ LET links == LinksOf(Val(view).of)
       IN  /\ Len(links) = 2
           /\ IsCandidate(links[1])
           /\ links[1].hreflang # None
           /\ Val(Val(view).val) = links[2]

\* Exactly the mandatory child f of the feed is missing; the other two are valid.
OnlyMissing(f) ==
    /\ tree.root[f] = None
    /\ RequiredValid([tree.root EXCEPT ![f] = Some(TextEl(None, None, Some(ValidDate)))])

\* C10: a feed lacking exactly one of id, title, updated makes the Atom
\* parser raise MissingElement whose message names that element, and no
\* Feed is returned.
C10_MissingMandatoryNamed ==
    \A f \in {"id", "title", "updated"} :
       (IsAtomFeedRoot /\ OnlyMissing(f))
       => /\ pc \in {"feed.parse_tree", "atom.parse", "atom.parse_feed",
                     "atom.raised", "raised"}
          /\ ret = None /\ result = None
          /\ pc \in {"atom.raised", "raised"}
               => /\ Val(exc).cls = "atom.MissingElement"
                  /\ Val(exc).args0.msg = <<"<atom:", f, ">">>
                  /\ Val(exc).args0.line = tree.root.sourceline

\* The feed without <title> was rejected.
C10_Witness ==
    /\ pc = "raised"
    /\ IsAtomFeedRoot
    /\ OnlyMissing("title")
    /\ Val(exc).cls = "atom.MissingElement"

\* An <updated>, <published>, <pubDate> or <lastBuildDate> that is present
\* and whose text is not a date the date parser accepts.
UnparseableDate(opt) == opt # None /\ Val(opt).text # Some(ValidDate)

\* id and title are valid and <updated> is present but not a parseable date.
OnlyUpdatedUnparseable(el) ==
    /\ el.id # None
    /\ el.title # None
    /\ ~IsXhtml(el.title)
    /\ ~(TypeOf(Val(el.title)) = "html" /\ Val(el.title).text = None)
    /\ UnparseableDate(el.updated)

\* C11 as stated: a feed <updated> whose text is not a parseable date makes
\* the Atom parser fail with InvalidDate carrying the raw text and no Feed is
\* returned; an entry <updated> with the same defect only drops the entry,
\* with one invalid-entry event of cause invalid-date carrying the raw text.
C11_AsStated ==
    /\ []((IsAtomFeedRoot /\ OnlyUpdatedUnparseable(tree.root))
            => /\ pc \in {"feed.parse_tree", "atom.parse", "atom.parse_feed",
                          "atom.raised", "raised"}
               /\ pc \in {"atom.raised", "raised"}
                    => /\ Val(exc).cls = "atom.InvalidDate"
                       /\ Some(Val(exc).date) = Val(tree.root.updated).text
                       /\ log = <<>>)
    /\ [][(/\ pc = "atom.parse_entries"
           /\ idx <= Len(tree.root.entry)
           /\ OnlyUpdatedUnparseable(tree.root.entry[idx]))
            => /\ pc' = "atom.parse_entries"
               /\ exc' = None
               /\ idx' = idx + 1
               /\ parsed' = parsed
               /\ Len(log') = Len(log) + 1
               /\ SubSeq(log', 1, Len(log)) = log
               /\ log'[Len(log')].event = "invalid-entry"
               /\ log'[Len(log')].cause = "invalid-date"
               /\ Some(log'[Len(log')].date)
                     = Val(tree.root.entry[idx].updated).text]_vars

\* C12: an <entry> whose <title> is of type xhtml is dropped like any entry
\* with a failing mandatory field: one invalid-entry event is logged, nothing
\* is kept of it, the parse goes on and the feed returned does not have it;
\* a <feed> whose own <title> is of type xhtml is never returned, the Atom
\* parser raises a parser error (NotImplementedError when <id> is present).
C12_XhtmlTitle ==
    /\ [][(/\ pc = "atom.parse_entries"
           /\ idx <= Len(tree.root.entry)
           /\ IsXhtml(tree.root.entry[idx].title))
            => /\ pc' = "atom.parse_entries"
               /\ exc' = None
               /\ idx' = idx + 1
               /\ parsed' = parsed
               /\ Len(log') = Len(log) + 1
               /\ SubSeq(log', 1, Len(log)) = log
               /\ log'[Len(log')].event = "invalid-entry"
               /\ log'[Len(log')].cause
                     = IF tree.root.entry[idx].id = None
                       THEN "missing-element" ELSE "not-implemented-error"]_vars
    /\ [](pc = "atom.returned"
            => /\ \A i \in 1..Len(Val(ret).entries) :
                     Val(ret).entries[i].title.type # "xhtml"
               /\ Len(Val(ret).entries)
                     <= Len(SelectSeq(tree.root.entry,
                                      LAMBDA el : ~IsXhtml(el.title))))
    /\ []((IsAtomFeedRoot /\ IsXhtml(tree.root.title))
            => /\ pc \in {"feed.parse_tree", "atom.parse", "atom.parse_feed",
                          "atom.raised", "raised"}
               /\ ret = None /\ result = None
               /\ pc \in {"atom.raised", "raised"}
                    => /\ IsSubclass(Val(exc).cls, "atom.AtomParserError")
                       /\ tree.root.id # None
                             => Val(exc).cls = "atom.NotImplementedError")

\* The feed was parsed although its only entry has an xhtml title: the entry
\* was logged and is not among the entries.
C12_Witness ==
    /\ pc = "atom.returned"
    /\ Len(tree.root.entry) = 1
    /\ IsXhtml(tree.root.entry[1].title)
    /\ tree.root.entry[1].id # None
    /\ Val(ret).entries = <<>>
    /\ Len(log) = 1
    /\ log[1].cause = "not-implemented-error"

\* C13: the RSS parser fails with InvalidRoot when the root is not <rss>,
\* otherwise with MissingAttribute when the root has no version, otherwise
\* with VersionNotSupported when the version is not 2.0, 0.92 or 0.91; it
\* decides this before it looks at the channel and logs nothing, whatever
\* the channel is like, and an RSS object is returned only for one of the
\* three versions.
C13_RootAndVersionChecks ==
    /\ [][pc = "rss.parse_rss"
            => LET root == tree.root
                   version == root.attrib.version
               IN  /\ log' = log /\ parsed' = parsed /\ ret' = ret
                   /\ IF root.tag # QName("", "rss")
                      THEN /\ pc' = "rss.raised"
                           /\ Val(exc').cls = "rss.InvalidRoot"
                      ELSE IF version = None
                      THEN /\ pc' = "rss.raised"
                           /\ Val(exc').cls = "rss.MissingAttribute"
                      ELSE IF Val(version) \notin {"2.0", "0.92", "0.91"}
                      THEN /\ pc' = "rss.raised"
                           /\ Val(exc').cls = "rss.VersionNotSupported"
                           /\ Val(exc').args0.msg = <<Val(version)>>
                      ELSE /\ pc' = "rss.parse_channel"
                           /\ exc' = None
                           /\ Val(partial').version = Val(version)]_vars
    /\ [](pc \in {"rss.parse_channel", "rss.parse_items", "rss.returned"}
            => /\ tree.root.tag = QName("", "rss")
               /\ tree.root.attrib.version
                     \in {Some("2.0"), Some("0.92"), Some("0.91")})
    /\ [](pc = "rss.returned"
            => Some(Val(ret).version) = tree.root.attrib.version)
    /\ []((result # None /\ Val(result).cls = "RSSFeed")
            => Val(result).feed.version \in {"2.0", "0.92", "0.91"})

\* Version 1.0 was rejected although the channel lacks its <title>: the
\* channel's defect did not come first.
C13_Witness ==
    /\ pc = "rss.raised"
    /\ Val(exc).cls = "rss.VersionNotSupported"
    /\ tree.root.channel # None
    /\ Val(tree.root.channel).title = None
    /\ log = <<>>

\* The root is <rss> with a version the RSS parser supports.
IsSupportedRssRoot ==
    /\ tree.root.tag = QName("", "rss")
    /\ tree.root.attrib.version \in {Some("2.0"), Some("0.92"), Some("0.91")}

\* The first of title, link, description the channel lacks, None when it
\* has all three.
FirstMissingOfChannel(channel) ==
    IF channel.title = None THEN Some("title")
    ELSE IF channel.link = None THEN Some("link")
    ELSE IF channel.description = None THEN Some("description")
    ELSE None

\* C14: when an RSS document with valid root and version has a <channel>
\* lacking <title>, <link> or <description>, the RSS parser raises
\* MissingElement naming the (first) absent element, returns no RSS object,
\* and has neither parsed nor logged any item.
C14_ChannelMandatory ==
    (/\ IsSupportedRssRoot
     /\ tree.root.channel # None
     /\ FirstMissingOfChannel(Val(tree.root.channel)) # None)
    => /\ pc \in {"feed.parse_tree", "atom.parse", "atom.parse_feed",
                  "atom.raised", "rss.parse_rss", "rss.parse_channel",
                  "rss.raised", "raised"}
       /\ ret = None /\ result = None
       /\ parsed = <<>> /\ idx = 1 /\ log = <<>>
       /\ pc \in {"rss.raised", "raised"}
            => /\ Val(exc).cls = "rss.MissingElement"
               /\ Val(exc).args0.msg
                     = <<"<", Val(FirstMissingOfChannel(Val(tree.root.channel))),
                         ">">>
               /\ Val(tree.root.channel)
                     [Val(FirstMissingOfChannel(Val(tree.root.channel)))] = None

\* A channel with two items and an unparseable <lastBuildDate> but without
\* <description> was rejected, and nothing was logged.
C14_Witness ==
    /\ pc = "raised"
    /\ IsSupportedRssRoot
    /\ tree.root.channel # None
    /\ FirstMissingOfChannel(Val(tree.root.channel)) = Some("description")
    /\ Len(Val(tree.root.channel).item) = 2
    /\ Val(exc).cls = "rss.MissingElement"
    /\ log = <<>>

\* The element is there and has text; an empty element has none, and the
\* parsers read its text as None.
HasText(opt) == opt # None /\ Val(opt).text # None

\* The item has a <title> or a <description>, with text.
HasTitleOrDescription(item) == HasText(item.title) \/ HasText(item.description)

\* Nothing in the item but its title and description decides whether it is
\* kept: its <pubDate>, when present, has text for the date parser.
PubDateHasText(item) == item.pubDate = None \/ HasText(item.pubDate)

\* The items of the channel element.
ItemsOf(t) == Val(t.root.channel).item

NonNegativeIntegers == [n \in {"0", "1024"} |-> IF n = "0" THEN 0 ELSE 1024]

\* The <enclosure> has url, length and type, and length is a non-negative
\* integer.
EnclosureValid(attrib) ==
    /\ attrib.url # None /\ attrib.length # None /\ attrib.type # None
    /\ Val(attrib.length) \in DOMAIN NonNegativeIntegers

\* The events of name that the step from log to log' has added.
Added(before, after, name) ==
    SelectSeq(SubSeq(after, Len(before) + 1, Len(after)),
              LAMBDA e : e.event = name)

C17_AsStated ==
    /\ [][(/\ pc = "atom.parse_entries"
           /\ idx <= Len(tree.root.entry)
           /\ RequiredValid(tree.root.entry[idx])
           /\ AllNamed(tree.root.entry[idx])
           /\ ~ContentIsMime(tree.root.entry[idx])
           /\ UnparseableDate(tree.root.entry[idx].published))
            => LET events == Added(log, log', "invalid-published")
               IN  /\ pc' = "atom.parse_entries"
                   /\ exc' = None
                   /\ Len(parsed') = Len(parsed) + 1
                   /\ parsed'[Len(parsed')].published = None
                   /\ Len(events) = 1
                   /\ events[1].cause = "invalid-date"
                   /\ Some(events[1].date)
                         = Val(tree.root.entry[idx].published).text]_vars
    /\ [][(/\ pc = "rss.parse_items"
           /\ idx <= Len(ItemsOf(tree))
           /\ HasTitleOrDescription(ItemsOf(tree)[idx])
           /\ UnparseableDate(ItemsOf(tree)[idx].pubDate))
            => LET events == Added(log, log', "invalid-pub-date")
               IN  /\ pc' = "rss.parse_items"
                   /\ exc' = None
                   /\ Len(parsed') = Len(parsed) + 1
                   /\ parsed'[Len(parsed')].pub_date = None
                   /\ Len(events) = 1
                   /\ Some(events[1].date)
                         = Val(ItemsOf(tree)[idx].pubDate).text]_vars
    /\ [][(/\ pc = "rss.parse_items"
           /\ idx > Len(ItemsOf(tree))
           /\ UnparseableDate(Val(tree.root.channel).lastBuildDate))
            => LET events == Added(log, log', "invalid-last-build-date")
               IN  /\ pc' = "rss.returned"
                   /\ exc' = None
                   /\ Val(ret').channel.last_build_date = None
                   /\ Val(ret').channel.items = parsed
                   /\ Len(events) = 1
                   /\ Some(events[1].date)
                         = Val(Val(tree.root.channel).lastBuildDate).text]_vars

\* The links claimed for a list of <link> elements: one per element with
\* href, in document order, rel being 'alternate' and the other attributes
\* None where the element does not carry them.
HasHref(el) == el.attrib.href # None

ClaimedLinks(els) ==
    LET good == SelectSeq(els, HasHref)
    IN  [i \in 1..Len(good) |->
            [href |-> Val(good[i].attrib.href),
             rel |-> IF good[i].attrib.rel = None THEN "alternate"
                     ELSE Val(good[i].attrib.rel),
             type |-> good[i].attrib.type,
             hreflang |-> good[i].attrib.hreflang,
             title |-> good[i].attrib.title,
             length |-> good[i].attrib.length]]

\* The step has logged one invalid-link event, of cause missing-attribute
\* for href, for each <link> of els without href, and no other one.
LoggedBadLinks(before, after, els) ==
    LET events == Added(before, after, "invalid-link")
        bad == SelectSeq(els, LAMBDA el : ~HasHref(el))
    IN  /\ Len(events) = Len(bad)
        /\ \A k \in 1..Len(events) :
              /\ events[k].cause = "missing-attribute"
              /\ events[k].attribute = "href"
              /\ events[k].lineno = bad[k].sourceline

\* Nothing in the entry but its links is in the way of its being kept.
EntryKeptButForLinks(el) ==
    /\ RequiredValid(el)
    /\ AllNamed(el)
    /\ ~ContentIsMime(el)
    /\ el.published = None \/ HasText(el.published)

C19_AtomEntryContent ==
    (/\ view # None
     /\ Val(view).prop = "content"
     /\ Val(result).cls = "AtomFeed")
    => LET entry == Val(result).feed.entries[Val(view).of]
           unified == Val(view).val
       IN  /\ Val(view).exc = None
           /\ entry.content # None
                 => /\ unified # None
                    /\ Val(unified).format = Val(entry.content).type
                    /\ Val(unified).source = Val(entry.content).src
                    /\ Val(unified).value = Val(entry.content).value
           /\ (entry.content = None /\ entry.summary # None)
                 => /\ unified # None
                    /\ Val(unified).format = Val(entry.summary).type
                    /\ Val(unified).value = Val(entry.summary).value
                    /\ Val(unified).source = None
           /\ (entry.content = None /\ entry.summary = None)
                 => unified = None

\* The content of an entry that has a summary as well was read: it is the
\* html content and not the text summary.
C19_Witness ==
    /\ view # None
    /\ Val(view).prop = "content"
    /\ Val(result).cls = "AtomFeed"
    /\ LET entry == Val(result).feed.entries[Val(view).of]
       IN  /\ entry.content # None
           /\ entry.summary # None
           /\ Val(entry.summary).type = "text"
           /\ Val(Val(view).val).format = "html"
           /\ Val(Val(view).val).value = Some("a & b")

\* C20: the unified links of an RSS item are an alternate text/html Link to
\* the item's link when it has one, followed by an enclosure Link with the
\* enclosure's url, type and integer length when it has an enclosure, and
\* nothing else; the website of the entry is that first Link when the item
\* has a link and None otherwise, never the enclosure.
C20_RssItemLinks ==
    (/\ view # None
     /\ Val(view).of > 0
     /\ Val(result).cls = "RSSFeed"
     /\ Val(view).prop \in {"links", "website"})
    => LET item == Val(result).feed.channel.items[Val(view).of]
           alternate == [href |-> Val(item.link), rel |-> "alternate",
                         type |-> Some("text/html"), hreflang |-> None,
                         title |-> None, length |-> None]
           enclosure == [href |-> Val(item.enclosure).url,
                         rel |-> "enclosure",
                         type |-> Some(Val(item.enclosure).type),
                         hreflang |-> None, title |-> None,
                         length |-> Some(Val(item.enclosure).length)]
       IN  /\ Val(view).exc = None
           /\ item.enclosure # None => Val(item.enclosure).length \in Nat
           /\ Val(view).prop = "links"
                 => Val(view).val
                       = (IF item.link # None THEN <<alternate>> ELSE <<>>)
                         \o (IF item.enclosure # None THEN <<enclosure>>
                             ELSE <<>>)
           /\ Val(view).prop = "website"
                 => Val(view).val
                       = IF item.link # None THEN Some(alternate) ELSE None

\* The links of an item with a link and an enclosure were read: the link
\* comes first, the enclosure second with its length 1024.
C20_Witness ==
    /\ view # None
    /\ Val(view).of > 0
    /\ Val(result).cls = "RSSFeed"
    /\ Val(view).prop = "links"
    /\ Len(Val(view).val) = 2
    /\ Val(view).val[1].rel = "alternate"
    /\ Val(view).val[2].rel = "enclosure"
    /\ Val(view).val[2].length = Some(1024)

C22_AsStated ==
    /\ \A i \in 1..Len(parsed) :
          ("content" \in DOMAIN parsed[i] /\ parsed[i].content # None)
             => ((Val(parsed[i].content).value # None)
                    <=> (Val(parsed[i].content).src = None))
    /\ (view # None /\ Val(view).prop = "content" /\ Val(view).val # None)
          => ((Val(Val(view).val).value # None)
                 <=> (Val(Val(view).val).source = None))

\* The identifiers an event of a recovered condition may have.
EventIdentifiers ==
    {"invalid-entry", "invalid-item", "invalid-enclosure", "invalid-link",
     "invalid-published", "invalid-pub-date", "invalid-last-build-date",
     "not-implemented-error", "missing-element", "invalid-date"}

\* C23 as stated: every event a parser logs for a recovered condition has
\* the key 'event' holding one of the fixed identifiers and the key 'lineno',
\* on every recovery path, xhtml summary and xhtml content included.
C23_AsStated ==
    \A k \in 1..Len(log) :
       /\ "event" \in DOMAIN log[k]
       /\ log[k].event \in EventIdentifiers
       /\ "lineno" \in DOMAIN log[k]

\* A feed in the Atom namespace, the only casing of it the document
\* declares, with a valid id, a plain text title and a valid updated, and
\* nothing else.
MinimalAtomFeed ==
    /\ IsAtomFeedRoot
    /\ \A i \in 1..Len(tree.nsmap) :
          Lower(tree.nsmap[i]) = ATOM_NAMESPACE
             => tree.nsmap[i] = tree.root.tag.ns
    /\ RequiredValid(tree.root)
    /\ TypeOf(Val(tree.root.title)) = "text"
    /\ tree.root.author = <<>> /\ tree.root.contributor = <<>>
    /\ tree.root.link = <<>> /\ tree.root.subtitle = None
    /\ tree.root.entry = <<>>

C26_ReadsChangeNothing ==
    /\ [][pc = "done" =>
             UNCHANGED <<result, ret, tree, parsed, partial, log, exc, pc>>]_vars
    /\ []((/\ first # None
           /\ view # None
           /\ Val(view).prop = Val(first).prop
           /\ Val(view).of = Val(first).of) => view = first)

C26_Witness ==
    /\ pc = "done"
    /\ Val(result).cls = "AtomFeed"
    /\ first # None /\ Val(first).prop = "links" /\ Val(first).of = 0
    /\ Len(Val(first).val) = 2
    /\ view # None /\ Val(view).prop = "website" /\ Val(view).of = 0
    /\ Val(view).val # None

\* The value is an integer: it prints as one of the integers of the model
\* (a string prints with its quotes).
IsInteger(x) == ToString(x) \in { ToString(n) : n \in {0, 1024} }

LengthIsIntegerOrNone(links) ==
    \A i \in 1..Len(links) :
       links[i].length = None \/ IsInteger(Val(links[i].length))

\* C28 as stated: the length of every Link, parsed from an Atom <link> or
\* derived from the enclosure of an RSS item, is an integer or None, in the
\* parsed Atom feed and its entries and in every links property read from
\* the unified feed and its entries.
C28_AsStated ==
    /\ (pc = "atom.returned") =>
          /\ LengthIsIntegerOrNone(Val(ret).links)
          /\ \A i \in 1..Len(Val(ret).entries) :
                LengthIsIntegerOrNone(Val(ret).entries[i].links)
    /\ (view # None /\ Val(view).prop = "links" /\ Val(view).exc = None) =>
          LengthIsIntegerOrNone(Val(view).val)

\* C30 as stated: parsing an entry whose <updated> or html <title> is present
\* without text never makes atom.parse_tree fail; the entry is dropped by the
\* recovery of parse_entry or kept.
C30_AsStated ==
    [][(/\ pc = "atom.parse_entries"
        /\ idx <= Len(tree.root.entry)
        /\ EmptyMandatory(tree.root.entry[idx])) => pc' # "atom.raised"]_vars

\* The failure of the first of id, title and updated that fails on its own,
\* None when none of them fails.
FirstFailure(el) ==
    IF ParseId(el).exc # None THEN ParseId(el).exc
    ELSE IF ParseTitle(el).exc # None THEN ParseTitle(el).exc
    ELSE ParseUpdated(el).exc

\* The same for title, link and description of a channel.
ChannelFirstFailure(channel) ==
    IF RssGetElementText(channel, "title").exc # None
    THEN RssGetElementText(channel, "title").exc
    ELSE IF RssGetElementText(channel, "link").exc # None
    THEN RssGetElementText(channel, "link").exc
    ELSE RssGetElementText(channel, "description").exc

\* C29: of the mandatory fields the first that fails, in the order id, title,
\* updated (title, link, description for a channel), is the one reported. A
\* feed or a channel with a failing mandatory field fails with that failure
\* before any entry or item is parsed and with nothing logged; an entry with
\* one is dropped with an event whose cause is that failure (missing-element
\* naming <atom:id> when <id> is missing, whatever else is wrong), or fails
\* with it when the failure is not a parser error.
C29_FirstFailureReported ==
    /\ []((/\ attempted # <<>>
           /\ tree.root.tag = QName(ResolveNamespace(tree.nsmap), "feed")
           /\ FirstFailure(tree.root) # None)
            => /\ pc \in {"atom.parse", "atom.parse_feed", "atom.raised",
                          "raised"}
               /\ log = <<>> /\ parsed = <<>> /\ idx = 1
               /\ pc \in {"atom.raised", "raised"}
                    => exc = FirstFailure(tree.root))
    /\ [][(/\ pc = "atom.parse_entries"
           /\ idx <= Len(tree.root.entry)
           /\ FirstFailure(tree.root.entry[idx]) # None)
            => LET failure == Val(FirstFailure(tree.root.entry[idx]))
               IN  IF Catches("atom.AtomParserError", failure)
                   THEN /\ pc' = pc /\ exc' = None
                        /\ idx' = idx + 1 /\ parsed' = parsed
                        /\ log' = Append(log,
                               LogKw(AtomCtx, Recause(ToLogKwargs(failure),
                                                      "invalid-entry")))
                        /\ tree.root.entry[idx].id = None
                             => /\ log'[Len(log')].cause = "missing-element"
                                /\ log'[Len(log')].element.msg
                                      = <<"<atom:", "id", ">">>
                   ELSE /\ pc' = "atom.raised"
                        /\ exc' = Some(failure)
                        /\ log' = log]_vars
    /\ []((/\ IsSupportedRssRoot
           /\ tree.root.channel # None
           /\ ChannelFirstFailure(Val(tree.root.channel)) # None)
            => /\ pc \in {"feed.parse_tree", "atom.parse", "atom.parse_feed",
                          "atom.raised", "rss.parse_rss", "rss.parse_channel",
                          "rss.raised", "raised"}
               /\ log = <<>> /\ parsed = <<>> /\ idx = 1
               /\ pc \in {"rss.raised", "raised"}
                    => exc = ChannelFirstFailure(Val(tree.root.channel)))

\* An entry without <id> whose <updated> is not a date was dropped, and the
\* event names the missing <id>.
C29_Witness ==
    /\ pc = "atom.parse_entries"
    /\ idx = 2
    /\ tree.root.entry[1].id = None
    /\ tree.root.entry[1].updated = Some(Plain(GarbageDate))
    /\ parsed = <<>>
    /\ Len(log) = 1
    /\ log[1].cause = "missing-element"
    /\ log[1].element.msg = <<"<atom:", "id", ">">>

\* The events of parser p among those emitted, in order.
EventsOf(p) ==
    LET mine == SelectSeq(sink, LAMBDA m : m.parser = p)
    IN  [i \in 1..Len(mine) |-> mine[i].event]

IsPrefix(a, b) == Len(a) <= Len(b) /\ SubSeq(b, 1, Len(a)) = a

\* What the parse of p gives when nothing else runs.
Alone(p) ==
    IF procs[p].kind = "atom" THEN AtomParseTree(procs[p].tree)
    ELSE RssParseTree(procs[p].tree)

\* C25: when parsers of different trees take their steps in any order, each
\* returns or raises what it does when run alone and logs the same events in
\* the same order; a step of one parser writes nothing of another parser, and
\* the default loggers of the modules are never modified.
C25_InterleavingInvisible ==
    /\ [](default_logger = [atom |-> DEFAULT_LOGGER, rss |-> DEFAULT_LOGGER])
    /\ [](\A p \in DOMAIN procs :
            /\ IsPrefix(EventsOf(p), Alone(p).logs)
            /\ procs[p].pc = "returned"
                 => /\ Alone(p).exc = None
                    /\ procs[p].ret = Some(Alone(p).val)
                    /\ EventsOf(p) = Alone(p).logs
            /\ procs[p].pc = "raised"
                 => /\ procs[p].exc = Alone(p).exc
                    /\ procs[p].exc # None
                    /\ EventsOf(p) = Alone(p).logs)
    /\ [][\A p, q \in DOMAIN procs :
            (p # q /\ procs'[p] # procs[p]) => procs'[q] = procs[q]]_vars

\* Two parsers have finished and their events are interleaved: one of the
\* first, then one of the second, then one of the first again.
C25_Witness ==
    /\ \A p \in DOMAIN procs : procs[p].pc \in {"returned", "raised"}
    /\ DOMAIN procs # {}
    /\ Len(sink) >= 3
    /\ sink[1].parser = 1 /\ sink[2].parser = 2 /\ sink[3].parser = 1
    /\ sink[1].event.source # sink[2].event.source
    /\ procs[1].kind = "atom" /\ procs[2].kind = "rss"
    /\ procs[2].pc = "returned"

\* The first declared namespace that is the Atom namespace up to case, the
\* canonical string when there is none.
FirstDeclaredAtom(nsmap) ==
    LET matches == { i \in 1..Len(nsmap) : Lower(nsmap[i]) = ATOM_NAMESPACE }
    IN  IF matches = {} THEN ATOM_NAMESPACE
        ELSE nsmap[CHOOSE i \in matches : \A j \in matches : i <= j]

\* The document uses one casing of the Atom namespace URI.
OneCasing ==
    \A a, b \in { tree.nsmap[i] : i \in 1..Len(tree.nsmap) }
                   \cup {tree.root.tag.ns} :
       (Lower(a) = ATOM_NAMESPACE /\ Lower(b) = ATOM_NAMESPACE) => a = b

====
